---- MODULE Spec2Model ----
(***************************************************************************)
(* A model of uniffi-swift-helper:                                         *)
(*   - the packaging run of src/xcframework.rs (create_xcframework):       *)
(*     identity resolution, grouping, per-group merge, bundling, patching, *)
(*     the move to the destination and the extraction of the bindings;     *)
(*   - package discovery and root selection of src/project.rs              *)
(*     (Project::uniffi_package) and of src/spm.rs                         *)
(*     (generate_swift_package2).                                          *)
(* The file system is a function from paths (sequences of names) to a      *)
(* content tag; "dir" is a directory.  A target triple is held as the      *)
(* sequence of its '-'-separated segments, so target.split('-') reads the  *)
(* segments in order and TargetStr joins them back with '-'.               *)
(***************************************************************************)
EXTENDS Naturals, Sequences, FiniteSets, TLC

(* ------------------------------ bounds --------------------------------- *)

\* Longest list of target triples handed to create_xcframework.
MaxTargets == 3

(* --------------------------- file system ------------------------------- *)

\* A path is a sequence of names; a name is <<stem, extension>>, so that
\* "ffi.a" is <<"ffi", "a">> and "tmp" is <<"tmp", "">>.
N(s) == <<s, "">>

F(stem, ext) == <<stem, ext>>

IsPrefix(p, q) == Len(p) <= Len(q) /\ SubSeq(q, 1, Len(p)) = p

Exists(f, p) == p \in DOMAIN f

IsDir(f, p) == Exists(f, p) /\ f[p] = "dir"

IsFile(f, p) == Exists(f, p) /\ f[p] # "dir"

\* The entries at or below p.
Under(f, p) == {q \in DOMAIN f : IsPrefix(p, q)}

\* The immediate entries of directory p (std::fs::read_dir).
Children(f, p) == {q \in DOMAIN f : Len(q) = Len(p) + 1 /\ IsPrefix(p, q)}

Prefixes(p) == {SubSeq(p, 1, k) : k \in 1 .. Len(p)}

Remove(f, S) == [q \in DOMAIN f \ S |-> f[q]]

WriteFile(f, p, c) == [q \in DOMAIN f \cup {p} |-> IF q = p THEN c ELSE f[q]]

\* The content of the tree at p, with paths relative to p.
SubTree(f, p) ==
  [r \in {SubSeq(q, Len(p) + 1, Len(q)) : q \in Under(f, p)} |-> f[p \o r]]

IoOk(f) == [ok |-> TRUE, fs |-> f]

IoErr(f) == [ok |-> FALSE, fs |-> f]

\* std::fs::remove_dir_all: removes the whole tree; it fails on a path that is
\* not a directory, and an I/O error may stop it before it removed anything or
\* after it removed one of the directory's entries.
remove_dir_all(f, p) ==
  IF ~IsDir(f, p) THEN {IoErr(f)}
  ELSE {IoOk(Remove(f, Under(f, p))), IoErr(f)}
       \cup {IoErr(Remove(f, Under(f, c))) : c \in Children(f, p)}

\* std::fs::create_dir_all: creates p and its missing parents; it fails when
\* a component is a file, or on an I/O error.
create_dir_all(f, p) ==
  IF \E q \in Prefixes(p) : IsFile(f, q) THEN {IoErr(f)}
  ELSE {IoOk([q \in DOMAIN f \cup Prefixes(p) |->
                IF q \in DOMAIN f THEN f[q] ELSE "dir"]),
        IoErr(f)}

\* Mutant of rename: a copy that is not atomic, and may stop after it has
\* created the destination's entries but one.
rename_by_copy(f, src, dst) ==
  IF ~Exists(f, src) \/ ~IsDir(f, SubSeq(dst, 1, Len(dst) - 1)) THEN {IoErr(f)}
  ELSE LET moved == Under(f, src)
           landed == {dst \o SubSeq(m, Len(src) + 1, Len(m)) : m \in moved}
           all == [q \in (DOMAIN f \ moved) \cup landed |->
                     IF q \in landed
                     THEN f[src \o SubSeq(q, Len(dst) + 1, Len(q))]
                     ELSE f[q]]
       IN {IoOk(all), IoErr(f)}
          \cup {IoErr([q \in (DOMAIN f \cup landed) \ {m} |->
                         IF q \in landed
                         THEN f[src \o SubSeq(q, Len(dst) + 1, Len(q))]
                         ELSE f[q]]) :
                  m \in {l \in landed : \A o \in landed : ~(IsPrefix(l, o) /\ o # l)}}

\* std::fs::rename: src (a file or a directory tree) takes the place of dst
\* (nothing, or an empty directory when src is a directory) in one step, or
\* nothing changes; a directory cannot be moved below itself.
rename(f, src, dst) ==
  IF \/ ~Exists(f, src)
     \/ IsPrefix(src, dst)
     \/ Exists(f, dst) /\ (~IsDir(f, src) \/ ~IsDir(f, dst) \/ Children(f, dst) # {})
     \/ ~IsDir(f, SubSeq(dst, 1, Len(dst) - 1))
  THEN {IoErr(f)}
  ELSE LET moved == Under(f, src)
           kept == DOMAIN f \ (moved \cup {dst})
           landed == {dst \o SubSeq(m, Len(src) + 1, Len(m)) : m \in moved}
       IN {IoOk([q \in kept \cup landed |->
                   IF q \in landed
                   THEN f[src \o SubSeq(q, Len(dst) + 1, Len(q))]
                   ELSE f[q]]),
           IoErr(f)}

\* std::fs::copy of one file.
copy(f, src, dst) ==
  IF ~IsFile(f, src) \/ ~IsDir(f, SubSeq(dst, 1, Len(dst) - 1)) \/ IsDir(f, dst)
  THEN {IoErr(f)}
  ELSE {IoOk(WriteFile(f, dst, f[src])), IoErr(f)}

\* utils.rs fs::recreate_dir: remove the directory if it exists, then create it.
recreate_dir(f, dir) ==
  LET removed == IF Exists(f, dir) THEN remove_dir_all(f, dir) ELSE {IoOk(f)}
  IN {o \in removed : ~o.ok}
     \cup UNION {create_dir_all(o.fs, dir) : o \in {r \in removed : r.ok}}

\* Mutant of files_with_extension: of several files with the extension, one
\* is returned.
files_with_extension_any_one(f, dir, ext) ==
  LET all == {q \in Children(f, dir) : IsFile(f, q) /\ q[Len(q)][2] = ext}
  IN IF all = {} THEN {} ELSE {CHOOSE q \in all : TRUE}

\* utils.rs files_with_extension: the files of a directory whose name has the
\* extension ext.
files_with_extension(f, dir, ext) ==
  {q \in Children(f, dir) : IsFile(f, q) /\ q[Len(q)][2] = ext}

(* ----------------------- targets and identities ------------------------ *)

\* The triples a run may be given, each as its '-'-separated segments.
Darwin1 == <<"a1", "apple", "darwin">>

Darwin2 == <<"a2", "apple", "darwin">>

Macos1 == <<"a1", "apple", "macos">>

Macos2 == <<"a2", "apple", "macos">>

IosSim == <<"aarch64", "apple", "ios", "sim">>

IosDev == <<"aarch64", "apple", "ios">>

\* The triples every list up to MaxTargets is drawn from.
TripleSet == {Darwin1, Darwin2, IosSim, IosDev}

NotApple == <<"aarch64", "unknown", "ios">>

NoOs == <<"aarch64", "apple">>

\* Further lists a run is tried on: triples whose OS segment is "macos",
\* whose vendor is not "apple", or that have no OS segment.
ExampleLists ==
  {<<Macos1, Macos2>>, <<Darwin1, Macos1>>, <<Darwin1, NotApple>>, <<IosSim, NoOs>>}

RECURSIVE TargetStr(_)
\* The target as the string the caller passed: its segments joined by '-'.
TargetStr(t) ==
  IF Len(t) = 0 THEN ""
  ELSE IF Len(t) = 1 THEN t[1]
  ELSE t[1] \o "-" \o TargetStr(Tail(t))

\* Mutant of ApplePlatform_try_from: the desktop OS is matched by the name
\* Display prints ("macos") instead of the triple's segment ("darwin").
ApplePlatform_try_from_display_name(s) ==
  CASE s = "macos" -> "MacOS"
    [] s = "ios" -> "IOS"
    [] s = "tvos" -> "TvOS"
    [] s = "watchos" -> "WatchOS"
    [] OTHER -> "Err: Unknown Apple platform"

\* apple_platform.rs TryFrom<&str> for ApplePlatform; the last arm bails.
ApplePlatform_try_from(s) ==
  CASE s = "darwin" -> "MacOS"
    [] s = "ios" -> "IOS"
    [] s = "tvos" -> "TvOS"
    [] s = "watchos" -> "WatchOS"
    [] OTHER -> "Err: Unknown Apple platform"

\* apple_platform.rs Display for ApplePlatform.
ApplePlatform_fmt(os) ==
  CASE os = "MacOS" -> "macos"
    [] os = "IOS" -> "ios"
    [] os = "TvOS" -> "tvos"
    [] os = "WatchOS" -> "watchos"

\* Mutant of LibraryGroupId_fmt: the "-sim" suffix is forgotten.
LibraryGroupId_fmt_without_sim(id) == ApplePlatform_fmt(id.os)

\* xcframework.rs Display for LibraryGroupId.
LibraryGroupId_fmt(id) ==
  ApplePlatform_fmt(id.os) \o (IF id.is_sim THEN "-sim" ELSE "")

\* The errors with which from_target rejects a triple before it asks the
\* toolchain.
TripleRejections ==
  {"Err: not an Apple platform", "Err: No OS in target", "Err: Unknown Apple platform"}

\* Mutant of from_target_os: the vendor segment is not looked at.
from_target_os_any_vendor(target) ==
  IF Len(target) < 3 THEN "Err: No OS in target"
  ELSE ApplePlatform_try_from(target[3])

\* LibraryGroupId::from_target up to the toolchain call: the ApplePlatform of
\* the triple's third segment, or the error the function returns.
from_target_os(target) ==
  IF Len(target) < 2 \/ target[2] # "apple" THEN "Err: not an Apple platform"
  ELSE IF Len(target) < 3 THEN "Err: No OS in target"
  ELSE ApplePlatform_try_from(target[3])

\* What `rustc --print target-spec-json --target <target>` may answer: the
\* call fails (or its output has no llvm-target), or it prints the target's
\* llvm-target, which ends with "-simulator" for the simulator ABI ("sim" as
\* fourth segment) and does not for a device triple.
RustcAnswers(target) ==
  {"fail", IF Len(target) >= 4 /\ target[4] = "sim" THEN "simulator" ELSE "device"}

\* LibraryGroupId::from_target: Ok(identity) of a triple given the
\* toolchain's answer, or Err.
from_target(target, answer) ==
  IF from_target_os(target) \in TripleRejections
  THEN [ok |-> FALSE, id |-> [os |-> from_target_os(target), is_sim |-> FALSE]]
  ELSE IF answer = "fail"
  THEN [ok |-> FALSE, id |-> [os |-> "Err: Command failed", is_sim |-> FALSE]]
  ELSE [ok |-> TRUE,
        id |-> [os |-> from_target_os(target), is_sim |-> (answer = "simulator")]]

(* ------------------------------ paths ---------------------------------- *)

\* build.rs CargoProfile::dir_name.
CargoProfile_dir_name(profile) == IF profile = "Dev" THEN "debug" ELSE "release"

\* The arguments build.rs passes to create_xcframework.
cargo_target_dir == <<N("target")>>

ffi_module_name == "ffi"

xcframework_path ==
  cargo_target_dir \o <<N(ffi_module_name), F(ffi_module_name, "xcframework")>>

swift_wrapper_dir == cargo_target_dir \o <<N(ffi_module_name), N("swift-wrapper")>>

\* create_xcframework: cargo_target_dir.join("tmp/wp-rs-xcframework").
temp_dir == cargo_target_dir \o <<N("tmp"), N("wp-rs-xcframework")>>

\* XCFramework::create_xcframework: temp_dir.join("<name>.xcframework").
temp_dest == temp_dir \o <<F(ffi_module_name, "xcframework")>>

\* Slice::built_product_dir.
built_product_dir(target, profile) ==
  cargo_target_dir \o <<N(TargetStr(target)), N(CargoProfile_dir_name(profile))>>

\* Mutant of slice_dir: one directory for the copies of all slices.
slice_dir_shared(target) == temp_dir \o <<N("slice")>>

\* Slice::create: temp_dir.join(target), and the copy's path in it.
slice_dir(target) == temp_dir \o <<N(TargetStr(target))>>

\* LibraryGroup::create: temp_dir.join(id.to_string()).
group_dir(id) == temp_dir \o <<N(LibraryGroupId_fmt(id))>>

(* ------------------- the state of a packaging run ---------------------- *)

VARIABLES
  pc,            \* the step of create_xcframework the run is at, or stopped at
  result,        \* "none" while running, then "Ok", "Err: ..." or "Panic: ..."
  targets,       \* the triples passed in
  profile,       \* the CargoProfile passed in
  fs,            \* the file system
  fs0,           \* the file system when the run started
  resolved,      \* XCFramework::new: the identity of each triple resolved so far
  groups,        \* XCFramework::new: the HashMap from identity to LibraryGroup
  libraries,     \* XCFramework.libraries
  g,             \* create_xcframework: the index of the group being created
  s,             \* LibraryGroup::create: the index of the slice being created
  libs,          \* LibraryGroup::create: the slice copies collected so far
  library_args,  \* create_xcframework: the (library, headers) pairs so far
  todo,          \* patch_xcframework: the bundle's directories still to visit
  calls          \* the external commands run so far, in order

xvars == <<pc, result, targets, profile, fs, fs0, resolved, groups, libraries,
           g, s, libs, library_args, todo, calls>>

VARIABLE
  patched        \* patch_xcframework applied again: the bundle each earlier
                 \* application left, in order

VARIABLES
  metadata,      \* cargo metadata: the packages of the workspace, in its order
  uniffi_toml,   \* the packages with a uniffi.toml next to their manifest
  workspace,     \* what the workspace holds beside the crates
  op,            \* the operation called: uniffi_package, generate_swift_package2
  dpc,           \* the step the operation is at, or stopped at
  dresult,       \* [kind, value]: kind "none" while running
  uniffi_packages,  \* the packages that passed is_uniffi_package
  uniffi_trees,  \* the UniffiPackage built of each of them so far
  stack,         \* the calls of UniffiPackage::new in progress, innermost last
  top_level_package,  \* generate_swift_package2: the package found
  cargo_package_to_spm_target_map,  \* SPMResolver: the name map passed in
  public_targets,     \* PackageTemplate.targets so far
  internal_targets,   \* PackageTemplate.internal_targets so far
  vendor,        \* the packages copied to target/uniffi-swift-helper/vendor
  manifest,      \* Package.swift at the workspace root
  dcalls,        \* the external commands run so far, in order
  queue,         \* UniffiPackage::iter: the nodes still to visit, next one last
  iter_result,   \* UniffiPackage::iter: the nodes collected so far
  yielded        \* what each call of iter that returned has yielded, in order

dvars == <<metadata, uniffi_toml, workspace, op, dpc, dresult, uniffi_packages,
           uniffi_trees, stack, top_level_package, cargo_package_to_spm_target_map,
           public_targets, internal_targets, vendor, manifest, dcalls,
           queue, iter_result, yielded>>

\* The state of UniffiPackage::iter.
ivars == <<queue, iter_result, yielded>>

vars == <<xvars, dvars, patched>>

\* No operation on the packages has been called.
DiscoveryIdle ==
  /\ metadata = [packages |-> <<>>]
  /\ uniffi_toml = {}
  /\ workspace = "fresh"
  /\ op = "none"
  /\ dpc = "idle"
  /\ dresult = [kind |-> "none", value |-> <<>>]
  /\ uniffi_packages = <<>>
  /\ uniffi_trees = <<>>
  /\ stack = <<>>
  /\ top_level_package = <<>>
  /\ cargo_package_to_spm_target_map = <<>>
  /\ public_targets = <<>>
  /\ internal_targets = <<>>
  /\ vendor = {}
  /\ manifest = [state |-> "absent", content |-> <<>>]
  /\ dcalls = <<>>
  /\ queue = <<>>
  /\ iter_result = <<>>
  /\ yielded = <<>>

Profiles == {"Dev"}

\* The files build.rs leaves in a slice's built-product directory: the static
\* library, and swift-bindings with the Swift source and the directory
\* "Headers" that reorganize_binding_files creates for the headers and the
\* module map.  A layout names what is there: "full" is the build's output on
\* a volume that ignores case, where the path .../headers names the directory
\* "Headers" (the model files it under that name); "case_sensitive" is the
\* same output on a volume that does not; the others name what is missing
\* or in excess.
Layouts == {"full", "case_sensitive", "nolib", "twolibs", "nobindings", "noheaders"}

ProductFiles(target, prof, layout) ==
  LET d == built_product_dir(target, prof)
      b == d \o <<N("swift-bindings")>>
      h == b \o <<N(IF layout = "case_sensitive" THEN "Headers" ELSE "headers")>>
      lib == [q \in {d \o <<F("lib" \o ffi_module_name, "a")>>} |-> TargetStr(target)]
      lib2 == [q \in {d \o <<F("libother", "a")>>} |-> TargetStr(target)]
      swift == [q \in {b \o <<F(ffi_module_name, "swift")>>} |-> "swift"]
      bdir == [q \in {b} |-> "dir"]
      hdrs == [q \in {h, h \o <<F(ffi_module_name \o "FFI", "h")>>,
                      h \o <<F("module", "modulemap")>>} |->
                 IF q = h THEN "dir" ELSE "header"]
      dirs == [q \in Prefixes(d) |-> "dir"]
  IN CASE layout \in {"full", "case_sensitive"} -> dirs @@ lib @@ bdir @@ swift @@ hdrs
       [] layout = "nolib" -> dirs @@ bdir @@ swift @@ hdrs
       [] layout = "twolibs" -> dirs @@ lib @@ lib2 @@ bdir @@ swift @@ hdrs
       [] layout = "nobindings" -> dirs @@ lib
       [] layout = "noheaders" -> dirs @@ lib @@ bdir @@ swift

\* What an earlier run may have left: a bundle at the destination with a
\* platform the new run may not produce, binding sources, and scratch files.
StaleFiles ==
  LET dirs == Prefixes(xcframework_path \o <<N("tvos"), N("Headers"), N("old")>>)
                \cup Prefixes(swift_wrapper_dir)
                \cup Prefixes(temp_dir \o <<N("macos")>>)
      files == {xcframework_path \o <<F("Info", "plist")>>,
                xcframework_path \o <<N("tvos"), F("old", "a")>>,
                xcframework_path \o <<N("tvos"), N("Headers"), N("old"), F("old", "h")>>,
                swift_wrapper_dir \o <<F("old", "swift")>>,
                temp_dir \o <<N("macos"), F("old", "a")>>}
  IN [q \in dirs \cup files |-> IF q \in dirs THEN "dir" ELSE "stale"]

RECURSIVE MergeAll(_)
MergeAll(fns) == IF fns = <<>> THEN <<>> ELSE Head(fns) @@ MergeAll(Tail(fns))

\* The targets of a list, once each, in the order of first appearance.
RECURSIVE Distinct(_)
Distinct(seq) ==
  IF seq = <<>> THEN <<>>
  ELSE LET rest == Distinct(SubSeq(seq, 1, Len(seq) - 1))
           last == seq[Len(seq)]
       IN IF \E k \in 1 .. Len(rest) : rest[k] = last THEN rest ELSE Append(rest, last)

\* The state in which create_xcframework is called: every target has been
\* built; the built-product directory of the first target may not be as the
\* build leaves it.
InitX ==
  /\ targets \in UNION {[1 .. n -> TripleSet] : n \in 0 .. MaxTargets} \cup ExampleLists
  /\ profile \in Profiles
  /\ \E stale \in BOOLEAN, layout \in Layouts :
       LET ts == Distinct(targets)
           products == [k \in 1 .. Len(ts) |->
                          ProductFiles(ts[k], profile, IF k = 1 THEN layout ELSE "full")]
       IN /\ fs = MergeAll(products) @@ [q \in {cargo_target_dir} |-> "dir"]
                    @@ (IF stale THEN StaleFiles ELSE <<>>)
  /\ fs0 = fs
  /\ pc = "start"
  /\ result = "none"
  /\ resolved = <<>>
  /\ groups = <<>>
  /\ libraries = <<>>
  /\ g = 1
  /\ s = 1
  /\ libs = <<>>
  /\ library_args = <<>>
  /\ todo = {}
  /\ calls = <<>>
  /\ patched = <<>>
  /\ DiscoveryIdle

\* Mutant of At: a step is taken although the run has ended with an error.
At_despite_failure(l) == pc = l

\* The run is at step l and has not returned.
At(l) == pc = l /\ result = "none"

\* Mutant of Abort: the failure is swallowed, and the step is tried again.
AbortRetried(kind, f) ==
  /\ fs' = f
  /\ UNCHANGED <<pc, result, targets, profile, fs0, resolved, groups, libraries, g, s,
                 libs, library_args, todo>>

\* The run ends at the step it is at, with an error (a `?` that returns Err)
\* or a panic.
Abort(kind, f) ==
  /\ result' = kind
  /\ fs' = f
  /\ UNCHANGED <<pc, targets, profile, fs0, resolved, groups, libraries, g, s, libs,
                 library_args, todo>>

\* create_xcframework: fs::recreate_dir(&temp_dir)?
Start ==
  /\ At("start")
  /\ \E o \in recreate_dir(fs, temp_dir) :
       IF o.ok
       THEN /\ pc' = "new"
            /\ fs' = o.fs
            /\ UNCHANGED <<result, targets, profile, fs0, resolved, groups,
                           libraries, g, s, libs, library_args, todo>>
       ELSE Abort("Err: recreate_dir", o.fs)
  /\ UNCHANGED calls
  /\ UNCHANGED <<dvars, patched>>

\* Mutant of entry_push: insert() in place of entry().or_insert(), so a
\* later triple of an identity replaces the group instead of joining it.
entry_push_insert(map, id, slice) ==
  [k \in DOMAIN map \cup {id} |->
     IF k = id THEN [id |-> id, slices |-> <<slice>>] ELSE map[k]]

\* HashMap entry(id).or_insert(LibraryGroup {id, slices: []}).slices.push(slice)
entry_push(map, id, slice) ==
  IF id \in DOMAIN map
  THEN [map EXCEPT ![id].slices = Append(@, slice)]
  ELSE map @@ [k \in {id} |-> [id |-> id, slices |-> <<slice>>]]

\* XCFramework::new, one iteration of `for target in targets`.
NewStep ==
  /\ At("new")
  /\ Len(resolved) < Len(targets)
  /\ LET target == targets[Len(resolved) + 1] IN
       IF from_target_os(target) \in TripleRejections
       THEN Abort(from_target_os(target), fs) /\ UNCHANGED calls
       ELSE \E answer \in RustcAnswers(target) :
              /\ calls' = Append(calls, [tool |-> "rustc", args |-> <<target>>])
              /\ IF ~from_target(target, answer).ok
                 THEN Abort(from_target(target, answer).id.os, fs)
                 ELSE /\ resolved' = Append(resolved, from_target(target, answer).id)
                      /\ groups' = entry_push(groups, from_target(target, answer).id,
                                              [target |-> target, profile |-> profile])
                      /\ UNCHANGED <<pc, result, targets, profile, fs, fs0, libraries,
                                     g, s, libs, library_args, todo>>
  /\ UNCHANGED <<dvars, patched>>

\* The sequences that list every element of S once.
Orders(S) ==
  {o \in [1 .. Cardinality(S) -> S] : \A a, b \in DOMAIN o : o[a] = o[b] => a = b}

\* groups.into_values().collect(): the groups in the map's iteration order,
\* which the HashMap does not specify.
into_values(map) == {[k \in DOMAIN o |-> map[o[k]]] : o \in Orders(DOMAIN map)}

\* XCFramework::new after the loop, then XCFramework::create up to the first
\* group: preview, and create_xcframework's remove_dir_all(&temp_dest).ok().
NewDone ==
  /\ At("new")
  /\ Len(resolved) = Len(targets)
  /\ libraries' \in into_values(groups)
  /\ \E o \in remove_dir_all(fs, temp_dest) : fs' = o.fs
  /\ pc' = IF libraries' = <<>> THEN "bundle" ELSE "slice"
  /\ UNCHANGED <<result, targets, profile, fs0, resolved, groups, g, s, libs,
                 library_args, todo, calls>>
  /\ UNCHANGED <<dvars, patched>>

\* Slice::create for slice s of group g: exactly one built library is
\* expected (assert!), and it is copied to a fresh directory of the slice.
SliceCreate ==
  /\ At("slice")
  /\ LET slice == libraries[g].slices[s]
         dir == built_product_dir(slice.target, slice.profile)
         found == files_with_extension(fs, dir, "a")
         dest == slice_dir(slice.target) \o <<F(ffi_module_name, "a")>>
         copied == UNION {copy(o.fs, CHOOSE l \in found : TRUE, dest) :
                            o \in {r \in recreate_dir(fs, slice_dir(slice.target)) : r.ok}}
     IN IF ~IsDir(fs, dir) THEN Abort("Err: read_dir", fs)
        ELSE IF Cardinality(found) # 1
        THEN Abort("Panic: Expected exactly one library for each slice", fs)
        ELSE \E o \in {r \in recreate_dir(fs, slice_dir(slice.target)) : ~r.ok}
                        \cup copied :
               IF o.ok
               THEN /\ fs' = o.fs
                    /\ libs' = Append(libs, dest)
                    /\ IF s < Len(libraries[g].slices)
                       THEN s' = s + 1 /\ pc' = "slice"
                       ELSE s' = 1 /\ pc' = "lipo"
                    /\ UNCHANGED <<result, targets, profile, fs0, resolved, groups,
                                   libraries, g, library_args, todo>>
               ELSE Abort("Err: Slice::create", o.fs)
  /\ UNCHANGED calls
  /\ UNCHANGED <<dvars, patched>>

RECURSIVE JoinWith(_, _)
JoinWith(strs, sep) ==
  IF Len(strs) = 0 THEN ""
  ELSE IF Len(strs) = 1 THEN strs[1]
  ELSE strs[1] \o sep \o JoinWith(Tail(strs), sep)

\* `xcrun lipo -create <inputs> -output <out>`: fails when an input is
\* missing or for a reason of its own; otherwise writes the merged library.
lipo_create(f, inputs, out) ==
  IF \E k \in DOMAIN inputs : ~IsFile(f, inputs[k]) THEN {IoErr(f)}
  ELSE {IoOk(WriteFile(f, out, JoinWith([k \in DOMAIN inputs |-> f[inputs[k]]], "+"))),
        IoErr(f)}

\* LibraryGroup::swift_bindings_dir: the first slice's swift-bindings.
swift_bindings_dir(group) ==
  built_product_dir(group.slices[1].target, group.slices[1].profile)
    \o <<N("swift-bindings")>>

\* LibraryGroup::headers_dir: swift_bindings_dir()?.join("headers").
headers_dir(group) == swift_bindings_dir(group) \o <<N("headers")>>

\* LibraryGroup::create after its slices: a fresh directory of the group, the
\* merge of the slice copies into it, then the closure's headers_dir()?.
GroupCreate ==
  /\ At("lipo")
  /\ LET group == libraries[g]
         dir == group_dir(group.id)
         dest == dir \o <<F(ffi_module_name, "a")>>
         recreated == recreate_dir(fs, dir)
     IN \/ /\ \E o \in {r \in recreated : ~r.ok} : Abort("Err: recreate_dir", o.fs)
           /\ UNCHANGED calls
        \/ /\ calls' = Append(calls, [tool |-> "lipo", args |-> Append(libs, dest)])
           /\ \E r \in {r \in recreated : r.ok} : \E o \in lipo_create(r.fs, libs, dest) :
                IF ~o.ok THEN Abort("Err: Command failed", o.fs)
                ELSE IF ~Exists(o.fs, swift_bindings_dir(group))
                        \/ ~Exists(o.fs, headers_dir(group))
                THEN Abort("Err: Headers not found", o.fs)
                ELSE /\ fs' = o.fs
                     /\ library_args' = Append(library_args, <<dest, headers_dir(group)>>)
                     /\ libs' = <<>>
                     /\ g' = g + 1
                     /\ pc' = IF g < Len(libraries) THEN "slice" ELSE "bundle"
                     /\ UNCHANGED <<result, targets, profile, fs0, resolved, groups,
                                    libraries, s, todo>>
  /\ UNCHANGED <<dvars, patched>>

\* The platform the bundler files a library under.  The bundler reads it from
\* the binary; the model reads it from the directory the merge wrote to.
PlatformOf(lib) == lib[Len(lib) - 1]

\* The bundle `xcodebuild -create-xcframework` writes at out: Info.plist and,
\* for each (library, headers) pair, a platform directory with the library
\* and a Headers directory holding a copy of the headers.
BundleTree(f, pairs, out) ==
  LET plat(k) == out \o <<PlatformOf(pairs[k][1])>>
      one(k) ==
        [q \in {plat(k), plat(k) \o <<N("Headers")>>} |-> "dir"]
        @@ [q \in {plat(k) \o <<pairs[k][1][Len(pairs[k][1])]>>} |-> f[pairs[k][1]]]
        @@ [q \in {plat(k) \o <<N("Headers"), h[Len(h)]>> : h \in Children(f, pairs[k][2])} |->
              f[pairs[k][2] \o <<q[Len(q)]>>]]
  IN [q \in Prefixes(out) |-> "dir"]
     @@ [q \in {out \o <<F("Info", "plist")>>} |-> "plist"]
     @@ MergeAll([k \in DOMAIN pairs |-> one(k)])

\* xcodebuild -create-xcframework: rejects an empty list, a missing library or
\* headers directory and two libraries of one platform; may fail otherwise.
xcodebuild_create_xcframework(f, pairs, out) ==
  IF \/ pairs = <<>>
     \/ \E k \in DOMAIN pairs : ~IsFile(f, pairs[k][1]) \/ ~IsDir(f, pairs[k][2])
     \/ \E a, b \in DOMAIN pairs : a # b /\ PlatformOf(pairs[a][1]) = PlatformOf(pairs[b][1])
     \/ Exists(f, out)
  THEN {IoErr(f)}
  ELSE {IoOk(BundleTree(f, pairs, out) @@ f), IoErr(f)}

\* XCFramework::create_xcframework after the groups: the bundler call; then
\* patch_xcframework's read_dir of the bundle.
Bundle ==
  /\ At("bundle")
  /\ calls' = Append(calls, [tool |-> "xcodebuild", args |-> library_args])
  /\ \E o \in xcodebuild_create_xcframework(fs, library_args, temp_dest) :
       IF o.ok
       THEN /\ fs' = o.fs
            /\ todo' = {q \in Children(o.fs, temp_dest) : IsDir(o.fs, q)}
            /\ pc' = IF todo' = {} THEN "recreate_dest" ELSE "patch"
            /\ UNCHANGED <<result, targets, profile, fs0, resolved, groups, libraries,
                           g, s, libs, library_args>>
       ELSE Abort("Err: Command failed", o.fs)
  /\ UNCHANGED <<dvars, patched>>

\* Path::ends_with(child) for a one-name child: the last name of the path is
\* child as a whole (".a" is the name <<".a", "">>, not an extension).
path_ends_with(path, child) == path[Len(path)] = child

RECURSIVE rename_all(_, _, _)
\* patch_xcframework: `for file in non_lib_files { rename(file, new/<name>)? }`
\* in any order of the files; the first failure ends it.
rename_all(f, files, into) ==
  IF files = {} THEN {IoOk(f)}
  ELSE UNION {UNION {IF o.ok THEN rename_all(o.fs, files \ {q}, into) ELSE {o} :
                       o \in rename(f, q, into \o <<q[Len(q)]>>)} : q \in files}

\* Mutant of patch_dir: the headers are left where the bundler put them.
patch_dir_nothing_moved(f, path, module_name) ==
  IF ~IsDir(f, path \o <<N("Headers")>>) THEN {IoErr(f)} ELSE {IoOk(f)}

\* Mutant of patch_dir: Headers/<module_name> is kept when it is there, and
\* is not one of the entries moved.
patch_dir_kept_module_dir(f, path, module_name) ==
  LET headers == path \o <<N("Headers")>>
      new_headers_dir == headers \o <<N(module_name)>>
      non_lib_files == {q \in Children(f, headers) :
                          ~path_ends_with(q, N(".a")) /\ q # new_headers_dir}
      created == create_dir_all(f, new_headers_dir)
  IN IF ~IsDir(f, headers) THEN {IoErr(f)}
     ELSE {o \in created : ~o.ok}
          \cup UNION {rename_all(o.fs, non_lib_files, new_headers_dir) :
                        o \in {r \in created : r.ok}}

\* patch_xcframework for one directory of the bundle: every entry of its
\* Headers folder that is not ".a" moves into a fresh Headers/<module_name>.
patch_dir(f, path, module_name) ==
  LET headers == path \o <<N("Headers")>>
      non_lib_files == {q \in Children(f, headers) : ~path_ends_with(q, N(".a"))}
      new_headers_dir == headers \o <<N(module_name)>>
      recreated == recreate_dir(f, new_headers_dir)
  IN IF ~IsDir(f, headers) THEN {IoErr(f)}
     ELSE {o \in recreated : ~o.ok}
          \cup UNION {rename_all(o.fs, non_lib_files, new_headers_dir) :
                        o \in {r \in recreated : r.ok}}

\* XCFramework::patch_xcframework, one iteration of `for dir_entry in
\* read_dir(temp_dir)` with path.is_dir(), in the directory's unspecified
\* order (an entry that is no directory is skipped).
PatchEntry ==
  /\ At("patch")
  /\ \E path \in todo :
       \E o \in patch_dir(fs, path, ffi_module_name) :
         IF o.ok
         THEN /\ fs' = o.fs
              /\ todo' = todo \ {path}
              /\ pc' = IF todo' = {} THEN "recreate_dest" ELSE "patch"
              /\ UNCHANGED <<result, targets, profile, fs0, resolved, groups,
                             libraries, g, s, libs, library_args>>
         ELSE Abort("Err: patch_xcframework", o.fs)
  /\ UNCHANGED calls
  /\ UNCHANGED <<dvars, patched>>

\* XCFramework::create: fs::recreate_dir(dest)?
RecreateDest ==
  /\ At("recreate_dest")
  /\ \E o \in recreate_dir(fs, xcframework_path) :
       IF o.ok
       THEN /\ fs' = o.fs
            /\ pc' = "rename"
            /\ UNCHANGED <<result, targets, profile, fs0, resolved, groups,
                           libraries, g, s, libs, library_args, todo>>
       ELSE Abort("Err: recreate_dir", o.fs)
  /\ UNCHANGED calls
  /\ UNCHANGED <<dvars, patched>>

\* XCFramework::create: std::fs::rename(temp_dest, dest)?
Rename ==
  /\ At("rename")
  /\ \E o \in rename(fs, temp_dest, xcframework_path) :
       IF o.ok
       THEN /\ fs' = o.fs
            /\ pc' = "recreate_wrapper"
            /\ UNCHANGED <<result, targets, profile, fs0, resolved, groups,
                           libraries, g, s, libs, library_args, todo>>
       ELSE Abort("Err: Failed to move xcframework", o.fs)
  /\ UNCHANGED calls
  /\ UNCHANGED <<dvars, patched>>

\* XCFramework::create: fs::recreate_dir(swift_wrapper_dir)?
RecreateWrapper ==
  /\ At("recreate_wrapper")
  /\ \E o \in recreate_dir(fs, swift_wrapper_dir) :
       IF o.ok
       THEN /\ fs' = o.fs
            /\ pc' = "copy_swift"
            /\ UNCHANGED <<result, targets, profile, fs0, resolved, groups,
                           libraries, g, s, libs, library_args, todo>>
       ELSE Abort("Err: recreate_dir", o.fs)
  /\ UNCHANGED calls
  /\ UNCHANGED <<dvars, patched>>

RECURSIVE copy_all(_, _, _)
\* XCFramework::create: `for file in files { copy(file, dir/<name>)? }` in
\* any order of the files; the first failure ends it.
copy_all(f, files, into) ==
  IF files = {} THEN {IoOk(f)}
  ELSE UNION {UNION {IF o.ok THEN copy_all(o.fs, files \ {q}, into) ELSE {o} :
                       o \in copy(f, q, into \o <<q[Len(q)]>>)} : q \in files}

\* XCFramework::create: the Swift files of libraries[0] are copied to
\* swift_wrapper_dir.
CopySwift ==
  /\ At("copy_swift")
  /\ IF libraries = <<>> THEN Abort("Panic: index out of bounds", fs)
     ELSE IF ~IsDir(fs, swift_bindings_dir(libraries[1]))
     THEN Abort("Err: Headers not found", fs)
     ELSE \E o \in copy_all(fs, files_with_extension(fs, swift_bindings_dir(libraries[1]),
                                                     "swift"), swift_wrapper_dir) :
            IF o.ok
            THEN /\ fs' = o.fs
                 /\ pc' = "cleanup"
                 /\ UNCHANGED <<result, targets, profile, fs0, resolved, groups,
                                libraries, g, s, libs, library_args, todo>>
            ELSE Abort("Err: Failed to copy", o.fs)
  /\ UNCHANGED calls
  /\ UNCHANGED <<dvars, patched>>

\* create_xcframework: std::fs::remove_dir_all(&temp_dir).ok(); Ok(())
Cleanup ==
  /\ At("cleanup")
  /\ \E o \in remove_dir_all(fs, temp_dir) : fs' = o.fs
  /\ pc' = "returned"
  /\ result' = "Ok"
  /\ UNCHANGED <<targets, profile, fs0, resolved, groups, libraries, g, s, libs,
                 library_args, todo, calls>>
  /\ UNCHANGED <<dvars, patched>>

NextX ==
  \/ Start
  \/ NewStep
  \/ NewDone
  \/ SliceCreate
  \/ GroupCreate
  \/ Bundle
  \/ PatchEntry
  \/ RecreateDest
  \/ Rename
  \/ RecreateWrapper
  \/ CopySwift
  \/ Cleanup

Spec == InitX /\ [][NextX]_vars

(* ---------------- patch_xcframework on a given bundle ------------------ *)

\* The applications of patch_xcframework to one bundle, at most.
MaxPatches == 2

\* The platform directories a given bundle may have.
BundlePlatforms == {N("macos"), N("ios")}

\* What the Headers folder of a platform directory may hold: headers, a
\* static library, and an entry whose whole name is ".a".
HeaderEntries ==
  {F("ffiFFI", "h"), F("module", "modulemap"), F("libffi", "a"), N(".a")}

\* The bundle at temp_dest whose platform directories hold the library and a
\* Headers folder with the entries of content.
GivenBundle(content) ==
  LET plat(p) == temp_dest \o <<p>>
      one(p) ==
        [q \in {plat(p), plat(p) \o <<N("Headers")>>} |-> "dir"]
        @@ [q \in {plat(p) \o <<F("lib" \o ffi_module_name, "a")>>} |-> "library"]
        @@ [q \in {plat(p) \o <<N("Headers"), e>> : e \in content[p]} |->
              IF q[Len(q)][2] = "a" \/ q[Len(q)] = N(".a") THEN "library" ELSE "header"]
      RECURSIVE all(_)
      all(ps) == IF ps = {} THEN <<>>
                 ELSE LET p == CHOOSE x \in ps : TRUE IN one(p) @@ all(ps \ {p})
  IN [q \in Prefixes(temp_dest) |-> "dir"]
     @@ [q \in {temp_dest \o <<F("Info", "plist")>>} |-> "plist"]
     @@ all(DOMAIN content)

\* patch_xcframework is called on a given bundle: its read_dir is done.
InitP ==
  /\ \E plats \in SUBSET BundlePlatforms :
       \E content \in [plats -> SUBSET HeaderEntries] : fs = GivenBundle(content)
  /\ fs0 = fs
  /\ todo = {q \in Children(fs, temp_dest) : IsDir(fs, q)}
  /\ pc = IF todo = {} THEN "recreate_dest" ELSE "patch"
  /\ result = "none"
  /\ targets = <<>>
  /\ profile = "Dev"
  /\ resolved = <<>>
  /\ groups = <<>>
  /\ libraries = <<>>
  /\ g = 1
  /\ s = 1
  /\ libs = <<>>
  /\ library_args = <<>>
  /\ calls = <<>>
  /\ patched = <<>>
  /\ DiscoveryIdle

\* patch_xcframework is called again on the bundle it returned Ok on.
PatchAgain ==
  /\ At("recreate_dest")
  /\ Len(patched) + 1 < MaxPatches
  /\ patched' = Append(patched, fs)
  /\ todo' = {q \in Children(fs, temp_dest) : IsDir(fs, q)}
  /\ pc' = IF todo' = {} THEN "recreate_dest" ELSE "patch"
  /\ UNCHANGED <<result, targets, profile, fs, fs0, resolved, groups, libraries,
                 g, s, libs, library_args, calls>>
  /\ UNCHANGED dvars

NextP ==
  \/ PatchEntry
  \/ PatchAgain

SpecPatch == InitP /\ [][NextP]_vars

(* ========================= package discovery ========================== *)
(* Project::uniffi_package (project.rs) and generate_swift_package2        *)
(* (spm.rs) read the workspace's packages from cargo metadata, keep the    *)
(* uniffi packages, build a UniffiPackage tree of each and look for the    *)
(* top-level one. A package is a record of the fields the code reads; a    *)
(* package id is <<scheme, rest>>, so that starts_with reads the scheme.   *)

\* The names cargo metadata may list, in the order it lists them.
PackageNames == <<"A", "B", "C", "D">>

\* The number of nested calls the thread's stack holds; one more aborts the
\* process. Every chain of distinct packages fits in it.
MaxStack == 4

\* The number of times iter is called on the package returned.
MaxIterCalls == 2

\* cargo_metadata::Dependency, the fields read.
Dependency(name, kind, optional) ==
  [name |-> name, kind |-> kind, optional |-> optional]

\* What sets a package apart: where it comes from (an id of scheme path+,
\* git+ or registry+), and how it falls short of being a uniffi package.
Flavors ==
  {"path", "git", "registry", "no_toml", "optional_uniffi", "dev_uniffi", "no_uniffi",
   "registry_no_toml"}

\* The package's dependency on the uniffi crate, if it declares one.
uniffi_dependency(flavor) ==
  CASE flavor = "no_uniffi" -> <<>>
    [] flavor = "optional_uniffi" -> <<Dependency("uniffi", "normal", TRUE)>>
    [] flavor = "dev_uniffi" -> <<Dependency("uniffi", "dev", FALSE)>>
    [] OTHER -> <<Dependency("uniffi", "normal", FALSE)>>

\* The position of a name in cargo metadata's order.
Position(name) == CHOOSE i \in DOMAIN PackageNames : PackageNames[i] = name

\* cargo_metadata::Package number i, declaring the packages ds in this order.
\* Cargo refuses a cycle of normal dependencies, so a dependency on a package
\* listed earlier is a dev-dependency.
MakePackage(i, ds, flavor) ==
  [name |-> PackageNames[i],
   id |-> <<CASE flavor = "git" -> "git+"
              [] flavor \in {"registry", "registry_no_toml"} -> "registry+"
              [] OTHER -> "path+", PackageNames[i]>>,
   manifest_path |-> <<N(PackageNames[i]), F("Cargo", "toml")>>,
   dependencies |->
     uniffi_dependency(flavor)
       \o [k \in DOMAIN ds |->
             Dependency(ds[k], IF Position(ds[k]) > i THEN "normal" ELSE "dev", FALSE)]]

NoRepeat(q) == \A i, j \in DOMAIN q : q[i] = q[j] => i = j

\* The lists a package may declare of the names S: any order, none twice.
DependencyLists(S) ==
  {q \in UNION {[1 .. n -> S] : n \in 0 .. Cardinality(S)} : NoRepeat(q)}

\* The packaging run has not been called.
PackagingIdle ==
  /\ pc = "idle"
  /\ result = "none"
  /\ targets = <<>>
  /\ profile = "Dev"
  /\ fs = <<>>
  /\ fs0 = <<>>
  /\ resolved = <<>>
  /\ groups = <<>>
  /\ libraries = <<>>
  /\ g = 1
  /\ s = 1
  /\ libs = <<>>
  /\ library_args = <<>>
  /\ todo = {}
  /\ calls = <<>>
  /\ patched = <<>>

\* The diamond: A declares B and C, and each of them declares D.
Diamond == <<<<"B", "C">>, <<"D">>, <<"D">>, <<>>>>

\* What the n packages of a workspace may declare: up to three packages
\* declare any lists of each other, none itself; four are the diamond.
Declarations(n) ==
  IF n = Len(Diamond) THEN {Diamond}
  ELSE {ds \in [1 .. n -> DependencyLists({PackageNames[i] : i \in 1 .. n})] :
          \A i \in 1 .. n : \A k \in DOMAIN ds[i] : ds[i][k] # PackageNames[i]}

\* A workspace of up to four packages; the last one listed is of any flavor,
\* the others are uniffi packages at local paths.
InitD ==
  /\ \E n \in 0 .. Len(PackageNames), flavor \in Flavors :
       LET names == {PackageNames[i] : i \in 1 .. n} IN
       \E ds \in Declarations(n), odd \in {j \in 1 .. n : flavor = "registry"} \cup {n} :
         /\ metadata =
              [packages |->
                 [i \in 1 .. n |-> MakePackage(i, ds[i], IF i = odd THEN flavor ELSE "path")]]
         /\ uniffi_toml = {m \in names : ~(/\ flavor \in {"no_toml", "registry_no_toml"}
                                            /\ m = PackageNames[n])}
  /\ workspace \in {"fresh", "used"}
  /\ manifest = [state |-> IF workspace = "used" THEN "old" ELSE "absent", content |-> <<>>]
  /\ op = "none"
  /\ dpc = "idle"
  /\ dresult = [kind |-> "none", value |-> <<>>]
  /\ uniffi_packages = <<>>
  /\ uniffi_trees = <<>>
  /\ stack = <<>>
  /\ top_level_package = <<>>
  /\ cargo_package_to_spm_target_map = <<>>
  /\ public_targets = <<>>
  /\ internal_targets = <<>>
  /\ vendor = {}
  /\ dcalls = <<>>
  /\ queue = <<>>
  /\ iter_result = <<>>
  /\ yielded = <<>>
  /\ PackagingIdle

\* Mutant of Running: a step is taken although an earlier one has failed.
Running_despite_failure(l) == dpc = l

\* The operation is at step l and has not ended.
Running(l) == dpc = l /\ dresult.kind = "none"

Min(S) == CHOOSE x \in S : \A y \in S : x <= y

\* project.rs 29-36, spm.rs 152-159
is_uniffi_package(package) ==
  LET depends_on_uniffi ==
        \E i \in DOMAIN package.dependencies :
          LET d == package.dependencies[i]
          IN d.name = "uniffi" /\ ~d.optional /\ d.kind = "normal"
      has_uniffi_toml == package.name \in uniffi_toml
  IN depends_on_uniffi /\ has_uniffi_toml

\* Mutant of unsupported_id: an id of the registry is let through.
unsupported_id_but_registry(package) ==
  package.id[1] \notin {"git+", "path+", "registry+"}

\* !id.repr.starts_with("git+") && !id.repr.starts_with("path+")
unsupported_id(package) == package.id[1] # "git+" /\ package.id[1] # "path+"

\* The filter over metadata.packages and the loop over the package ids that
\* bails at the first id of another scheme.
Discover ==
  LET found == SelectSeq(metadata.packages, is_uniffi_package)
      bad == {i \in DOMAIN found : unsupported_id(found[i])}
  IN /\ uniffi_packages' = found
     /\ IF bad # {}
        THEN /\ dresult' = [kind |-> "Err: Unsupported package id",
                            value |-> found[Min(bad)].id]
             /\ dpc' = "filter"
        ELSE /\ dpc' = "new"
             /\ UNCHANGED dresult

\* Project::uniffi_package is called with the metadata.
Call_uniffi_package ==
  /\ Running("idle")
  /\ op' = "uniffi_package"
  /\ Discover
  /\ UNCHANGED <<metadata, uniffi_toml, workspace, uniffi_trees, stack,
                 top_level_package, cargo_package_to_spm_target_map,
                 public_targets, internal_targets, vendor, manifest, dcalls>>
  /\ UNCHANGED <<xvars, patched>>
  /\ UNCHANGED ivars

\* The name a cargo package is given in the map passed in.
SpmName(name) == name \o "Kit"

\* The maps passed in: a name for every package of the workspace, or for all
\* but one.
NameMaps ==
  LET names == {metadata.packages[i].name : i \in DOMAIN metadata.packages}
  IN {[n \in K |-> SpmName(n)] : K \in {names} \cup {names \ {x} : x \in names}}

\* generate_swift_package2 is called: cargo metadata is run, the current
\* directory is compared with the workspace root, the packages are filtered.
Call_generate_swift_package2 ==
  /\ Running("idle")
  /\ op' = "generate_swift_package2"
  /\ dcalls' = Append(dcalls, [tool |-> "cargo", args |-> <<"metadata">>])
  /\ \E packages \in NameMaps :
       cargo_package_to_spm_target_map' = packages
  /\ \E outcome \in {"ok", "Err: Can't get cargo metadata",
                     "Err: The current directory is not the cargo root directory"} :
       IF outcome # "ok"
       THEN /\ dresult' = [kind |-> outcome, value |-> <<>>]
            /\ dpc' = "metadata"
            /\ UNCHANGED uniffi_packages
       ELSE Discover
  /\ UNCHANGED <<metadata, uniffi_toml, workspace, uniffi_trees, stack,
                 top_level_package, public_targets, internal_targets, vendor,
                 manifest>>
  /\ UNCHANGED <<xvars, patched>>
  /\ UNCHANGED ivars

\* A call of UniffiPackage::new: the package, the dependency it is at, the
\* UniffiPackages collected of the dependencies before.
Frame(package) == [package |-> package, i |-> 1, dependencies |-> <<>>]

\* .map(|p| UniffiPackage::new(p, &uniffi_packages)): the call for the next
\* package of the list.
NewCall ==
  /\ Running("new")
  /\ stack = <<>>
  /\ Len(uniffi_trees) < Len(uniffi_packages)
  /\ stack' = <<Frame(uniffi_packages[Len(uniffi_trees) + 1])>>
  /\ UNCHANGED <<metadata, uniffi_toml, workspace, op, dpc, dresult, uniffi_packages,
                 uniffi_trees, top_level_package, cargo_package_to_spm_target_map,
                 public_targets, internal_targets, vendor, manifest, dcalls>>
  /\ UNCHANGED <<xvars, patched>>
  /\ UNCHANGED ivars

\* UniffiPackage::new, one dependency of the filter_map: a dependency that is
\* no uniffi package is skipped; for one that is, new is called on the first
\* package of that name, whatever the dependency's kind and whatever calls
\* are in progress.
NewDependency ==
  /\ Running("new")
  /\ stack # <<>>
  /\ LET top == stack[Len(stack)] IN
       /\ top.i <= Len(top.package.dependencies)
       /\ LET d == top.package.dependencies[top.i]
              found == {k \in DOMAIN uniffi_packages : uniffi_packages[k].name = d.name}
          IN IF found = {}
             THEN /\ stack' = [stack EXCEPT ![Len(stack)].i = @ + 1]
                  /\ UNCHANGED dresult
             ELSE IF Len(stack) >= MaxStack
             THEN /\ dresult' = [kind |-> "Abort: stack overflow", value |-> <<>>]
                  /\ UNCHANGED stack
             ELSE /\ stack' = Append(stack, Frame(uniffi_packages[Min(found)]))
                  /\ UNCHANGED dresult
  /\ UNCHANGED <<metadata, uniffi_toml, workspace, op, dpc, uniffi_packages,
                 uniffi_trees, top_level_package, cargo_package_to_spm_target_map,
                 public_targets, internal_targets, vendor, manifest, dcalls>>
  /\ UNCHANGED <<xvars, patched>>
  /\ UNCHANGED ivars

\* UniffiPackage::new returns the UniffiPackage, to the call that made it or
\* to the map over the list.
NewReturn ==
  /\ Running("new")
  /\ stack # <<>>
  /\ LET top == stack[Len(stack)]
         node == [name |-> top.package.name,
                  manifest_path |-> top.package.manifest_path,
                  dependencies |-> top.dependencies]
     IN /\ top.i > Len(top.package.dependencies)
        /\ IF Len(stack) = 1
           THEN /\ uniffi_trees' = Append(uniffi_trees, node)
                /\ stack' = <<>>
           ELSE /\ stack' = [SubSeq(stack, 1, Len(stack) - 1) EXCEPT
                               ![Len(stack) - 1] =
                                 [@ EXCEPT !.dependencies = Append(@, node), !.i = @ + 1]]
                /\ UNCHANGED uniffi_trees
  /\ UNCHANGED <<metadata, uniffi_toml, workspace, op, dpc, dresult, uniffi_packages,
                 top_level_package, cargo_package_to_spm_target_map,
                 public_targets, internal_targets, vendor, manifest, dcalls>>
  /\ UNCHANGED <<xvars, patched>>
  /\ UNCHANGED ivars

\* UniffiPackage::depends_on
depends_on(self, other) ==
  \E i \in DOMAIN self.dependencies : self.dependencies[i].name = other

\* The packages of the list that no package of the list depends on, in the
\* list's order.
top_level_packages(list) ==
  SelectSeq(list, LAMBDA p : ~\E k \in DOMAIN list : depends_on(list[k], p.name))

\* Every package of the list has its UniffiPackage.
AllBuilt == stack = <<>> /\ Len(uniffi_trees) = Len(uniffi_packages)

\* Project::uniffi_package, from the filter for the top-level packages on.
TopLevelPackages ==
  /\ Running("new")
  /\ op = "uniffi_package"
  /\ AllBuilt
  /\ LET top == top_level_packages(uniffi_trees)
     IN IF Len(top) # 1
        THEN /\ dresult' = [kind |-> "Err: Expected 1 top-level package, found",
                            value |-> [k \in DOMAIN top |-> top[k].name]]
             /\ UNCHANGED dpc
        ELSE /\ dresult' = [kind |-> "Ok", value |-> top[1]]
             /\ dpc' = "returned"
  /\ UNCHANGED <<metadata, uniffi_toml, workspace, op, uniffi_packages, uniffi_trees,
                 stack, top_level_package, cargo_package_to_spm_target_map,
                 public_targets, internal_targets, vendor, manifest, dcalls>>
  /\ UNCHANGED <<xvars, patched>>
  /\ UNCHANGED ivars

\* generate_swift_package2: .find(..).unwrap() takes the first package no
\* package depends on, and panics when there is none.
FindTopLevelPackage ==
  /\ Running("new")
  /\ op = "generate_swift_package2"
  /\ AllBuilt
  /\ LET top == top_level_packages(uniffi_trees)
     IN IF top = <<>>
        THEN /\ dresult' = [kind |-> "Panic: called Option::unwrap() on a None value",
                            value |-> <<>>]
             /\ UNCHANGED <<dpc, top_level_package>>
        ELSE /\ top_level_package' = top[1]
             /\ dpc' = "public_target"
             /\ UNCHANGED dresult
  /\ UNCHANGED <<metadata, uniffi_toml, workspace, op, uniffi_packages, uniffi_trees,
                 stack, cargo_package_to_spm_target_map, public_targets,
                 internal_targets, vendor, manifest, dcalls>>
  /\ UNCHANGED <<xvars, patched>>
  /\ UNCHANGED ivars

\* The names of a list of packages the map has no entry for, in order.
Unnamed(list) ==
  SelectSeq([k \in DOMAIN list |-> list[k].name],
            LAMBDA n : n \notin DOMAIN cargo_package_to_spm_target_map)

\* Mutant of spm_target_name: the cargo package's own name is the SPM name.
spm_target_name_of_cargo(cargo_package_name) == cargo_package_name

\* SPMResolver::spm_target_name, where the map has the name.
spm_target_name(cargo_package_name) ==
  cargo_package_to_spm_target_map[cargo_package_name]

\* The swift code of a package from a git repository is outside the
\* workspace root.
outside_root(package) ==
  \E i \in DOMAIN uniffi_packages :
    /\ uniffi_packages[i].name = package.name
    /\ uniffi_packages[i].id[1] = "git+"

\* vend_swift_source_code's result: <package>/native/swift, or its copy under
\* target/uniffi-swift-helper/vendor.
swift_code_dir(package) ==
  IF outside_root(package)
  THEN <<"target", "uniffi-swift-helper", "vendor", package.name>>
  ELSE <<package.name, "native", "swift">>

\* SPMResolver::public_target for the next package of the list: the swift
\* code is vended, the only subdirectories of Sources and Tests are taken,
\* the dependencies and the package are named.
PublicTarget ==
  /\ Running("public_target")
  /\ LET package == uniffi_trees[Len(public_targets) + 1]
         unnamed == Unnamed(package.dependencies \o <<package>>)
     IN /\ dcalls' = Append(dcalls, [tool |-> "cargo", args |-> <<"metadata", package.name>>])
        /\ \E outcome \in {"ok", "Err: vend_swift_source_code", "Err: get_only_subdir"} :
             IF outcome = "Err: vend_swift_source_code"
             THEN /\ dresult' = [kind |-> outcome, value |-> package.name]
                  /\ UNCHANGED <<dpc, public_targets, vendor>>
             ELSE /\ vendor' = IF outside_root(package)
                               THEN vendor \cup {package.name} ELSE vendor
                  /\ IF outcome # "ok"
                     THEN /\ dresult' = [kind |-> outcome, value |-> package.name]
                          /\ UNCHANGED <<dpc, public_targets>>
                     ELSE IF unnamed # <<>>
                     THEN /\ dresult' =
                               [kind |-> "Panic: No SPM target name specified for cargo package",
                                value |-> unnamed[1]]
                          /\ UNCHANGED <<dpc, public_targets>>
                     ELSE /\ public_targets' =
                               Append(public_targets,
                                 [name |-> spm_target_name(package.name),
                                  library_source_path |->
                                    swift_code_dir(package) \o <<"Sources", package.name>>,
                                  test_source_path |->
                                    swift_code_dir(package) \o <<"Tests", package.name>>,
                                  dependencies |->
                                    [k \in DOMAIN package.dependencies |->
                                       spm_target_name(package.dependencies[k].name)],
                                  has_test_resources |->
                                    workspace = "used" /\ package.name = PackageNames[1]])
                          /\ dpc' = IF Len(public_targets') = Len(uniffi_trees)
                                    THEN "internal_target" ELSE dpc
                          /\ UNCHANGED dresult
  /\ UNCHANGED <<metadata, uniffi_toml, workspace, op, uniffi_packages, uniffi_trees,
                 stack, top_level_package, cargo_package_to_spm_target_map,
                 internal_targets, manifest>>
  /\ UNCHANGED <<xvars, patched>>
  /\ UNCHANGED ivars

\* SPMResolver::internal_target for the next package of the list.
InternalTarget ==
  /\ Running("internal_target")
  /\ LET package == uniffi_trees[Len(internal_targets) + 1]
         unnamed == Unnamed(package.dependencies \o <<package>>)
     IN \E binding_file_exists \in BOOLEAN :
          IF ~binding_file_exists
          THEN /\ dresult' = [kind |-> "Err: Swift wrapper file is not found",
                              value |-> package.name]
               /\ UNCHANGED <<dpc, internal_targets>>
          ELSE IF unnamed # <<>>
          THEN /\ dresult' =
                    [kind |-> "Panic: No SPM target name specified for cargo package",
                     value |-> unnamed[1]]
               /\ UNCHANGED <<dpc, internal_targets>>
          ELSE /\ internal_targets' =
                    Append(internal_targets,
                      [name |-> spm_target_name(package.name) \o "Internal",
                       swift_wrapper_dir |-> <<"target", ffi_module_name, "swift-wrapper">>,
                       source_file |-> package.name \o ".swift",
                       dependencies |->
                         [k \in DOMAIN package.dependencies |->
                            spm_target_name(package.dependencies[k].name) \o "Internal"]])
               /\ dpc' = IF Len(internal_targets') = Len(uniffi_trees)
                         THEN "write" ELSE dpc
               /\ UNCHANGED dresult
  /\ UNCHANGED <<metadata, uniffi_toml, workspace, op, uniffi_packages, uniffi_trees,
                 stack, top_level_package, cargo_package_to_spm_target_map,
                 public_targets, vendor, manifest, dcalls>>
  /\ UNCHANGED <<xvars, patched>>
  /\ UNCHANGED ivars

project_name == "project"

\* generate_swift_package2: the template is filled and rendered, and
\* File::create(&dest)?.write_all(..)? writes it: create truncates the file,
\* so a write that fails leaves an empty Package.swift.
WriteManifest ==
  /\ Running("write")
  /\ IF top_level_package.name \notin DOMAIN cargo_package_to_spm_target_map
     THEN /\ dresult' = [kind |-> "Panic: No SPM target name specified for cargo package",
                         value |-> top_level_package.name]
          /\ UNCHANGED <<dpc, manifest>>
     ELSE LET template == [package_name |-> spm_target_name(top_level_package.name),
                           ffi_module_name |-> ffi_module_name,
                           project_name |-> project_name,
                           targets |-> public_targets,
                           internal_targets |-> internal_targets]
          IN \E outcome \in {"ok", "Err: File::create", "Err: write_all"} :
               CASE outcome = "ok" ->
                      /\ manifest' = [state |-> "written", content |-> template]
                      /\ dpc' = "format"
                      /\ UNCHANGED dresult
                 [] outcome = "Err: File::create" ->
                      /\ dresult' = [kind |-> outcome, value |-> <<>>]
                      /\ UNCHANGED <<dpc, manifest>>
                 [] outcome = "Err: write_all" ->
                      /\ dresult' = [kind |-> outcome, value |-> <<>>]
                      /\ manifest' = [state |-> "truncated", content |-> <<>>]
                      /\ UNCHANGED dpc
  /\ UNCHANGED <<metadata, uniffi_toml, workspace, op, uniffi_packages, uniffi_trees,
                 stack, top_level_package, cargo_package_to_spm_target_map,
                 public_targets, internal_targets, vendor, dcalls>>
  /\ UNCHANGED <<xvars, patched>>
  /\ UNCHANGED ivars

\* generate_swift_package2: swift format --in-place Package.swift
Format ==
  /\ Running("format")
  /\ dcalls' = Append(dcalls, [tool |-> "swift",
                               args |-> <<"format", "--in-place", "Package.swift">>])
  /\ \E ok \in BOOLEAN :
       IF ok
       THEN /\ manifest' = [manifest EXCEPT !.state = "formatted"]
            /\ dresult' = [kind |-> "Ok", value |-> <<>>]
            /\ dpc' = "returned"
       ELSE /\ dresult' = [kind |-> "Err: Command failed", value |-> <<>>]
            /\ UNCHANGED <<dpc, manifest>>
  /\ UNCHANGED <<metadata, uniffi_toml, workspace, op, uniffi_packages, uniffi_trees,
                 stack, top_level_package, cargo_package_to_spm_target_map,
                 public_targets, internal_targets, vendor>>
  /\ UNCHANGED <<xvars, patched>>
  /\ UNCHANGED ivars

\* Project::packages_iter: a node of the tree of the package returned, as
\* the positions to follow down from it (a reference into the tree).
RECURSIVE NodeAt(_, _)
NodeAt(tree, path) ==
  IF path = <<>> THEN tree ELSE NodeAt(tree.dependencies[Head(path)], Tail(path))

\* Mutant of queue_pop: the node pushed first is taken (a FIFO queue).
queue_pop_front(q) == [package |-> q[1], rest |-> SubSeq(q, 2, Len(q))]

\* queue.pop(): the last node pushed, and the queue without it.
queue_pop(q) == [package |-> q[Len(q)], rest |-> SubSeq(q, 1, Len(q) - 1)]

\* Mutant of result_push: the package is put in front of the ones collected.
result_push_front(res, package) == <<package>> \o res

\* result.push(package)
result_push(res, package) == Append(res, package)

\* Mutant of queue_push_dependencies: a package already collected is not
\* pushed again.
queue_push_new_dependencies(q, package, node) ==
  q \o SelectSeq([k \in DOMAIN node.dependencies |-> Append(package, k)],
                 LAMBDA d : \A i \in DOMAIN iter_result :
                              NodeAt(dresult.value, iter_result[i]).name
                                # NodeAt(dresult.value, d).name)

\* for dep in &package.dependencies { queue.push(dep) }
queue_push_dependencies(q, package, node) ==
  q \o [k \in DOMAIN node.dependencies |-> Append(package, k)]

\* UniffiPackage::iter is called on the package uniffi_package returned:
\* result and queue are empty vectors, and self is pushed.
IterCall ==
  /\ op = "uniffi_package"
  /\ dpc = "returned"
  /\ dresult.kind = "Ok"
  /\ Len(yielded) < MaxIterCalls
  /\ dpc' = "iter"
  /\ iter_result' = <<>>
  /\ queue' = <<<<>>>>
  /\ UNCHANGED <<metadata, uniffi_toml, workspace, op, dresult, uniffi_packages,
                 uniffi_trees, stack, top_level_package,
                 cargo_package_to_spm_target_map, public_targets, internal_targets,
                 vendor, manifest, dcalls, yielded>>
  /\ UNCHANGED <<xvars, patched>>

\* UniffiPackage::iter, one turn of `while let Some(package) = queue.pop()`.
IterStep ==
  /\ dpc = "iter"
  /\ queue # <<>>
  /\ LET popped == queue_pop(queue)
         node == NodeAt(dresult.value, popped.package)
     IN /\ iter_result' = result_push(iter_result, popped.package)
        /\ queue' = queue_push_dependencies(popped.rest, popped.package, node)
  /\ UNCHANGED <<metadata, uniffi_toml, workspace, op, dpc, dresult, uniffi_packages,
                 uniffi_trees, stack, top_level_package,
                 cargo_package_to_spm_target_map, public_targets, internal_targets,
                 vendor, manifest, dcalls, yielded>>
  /\ UNCHANGED <<xvars, patched>>

\* UniffiPackage::iter: the queue is empty, result.into_iter() is returned.
IterReturn ==
  /\ dpc = "iter"
  /\ queue = <<>>
  /\ yielded' = Append(yielded, iter_result)
  /\ dpc' = "returned"
  /\ UNCHANGED <<metadata, uniffi_toml, workspace, op, dresult, uniffi_packages,
                 uniffi_trees, stack, top_level_package,
                 cargo_package_to_spm_target_map, public_targets, internal_targets,
                 vendor, manifest, dcalls, queue, iter_result>>
  /\ UNCHANGED <<xvars, patched>>

NextD ==
  \/ Call_uniffi_package
  \/ Call_generate_swift_package2
  \/ NewCall
  \/ NewDependency
  \/ NewReturn
  \/ TopLevelPackages
  \/ FindTopLevelPackage
  \/ PublicTarget
  \/ InternalTarget
  \/ WriteManifest
  \/ Format
  \/ IterCall
  \/ IterStep
  \/ IterReturn

SpecDiscovery == InitD /\ [][NextD]_vars

(* ================= properties of the packaging run ==================== *)

\* XCFramework::new has returned Ok: the run is past the grouping loop.
NewReturned == pc \notin {"start", "new"}

\* The identities resolved from the list.
Ids == {resolved[i] : i \in DOMAIN resolved}

RECURSIVE PickFrom(_, _)
\* The triples of positions k .. Len(resolved) whose identity is id, in order.
PickFrom(k, id) ==
  IF k > Len(resolved) THEN <<>>
  ELSE (IF resolved[k] = id THEN <<targets[k]>> ELSE <<>>) \o PickFrom(k + 1, id)

\* The triples of the list that resolved to id, in list order.
TriplesOf(id) == PickFrom(1, id)

\* The bundle the list's triples stand for, with paths relative to its root:
\* Info.plist and one directory per identity with the merged library and
\* the headers one level down, under Headers/<module name>.
ExpectedBundle ==
  LET plat(id) == N(LibraryGroupId_fmt(id))
      hdr(id) == <<plat(id), N("Headers"), N(ffi_module_name)>>
      one(id) ==
        [q \in {<<plat(id)>>, <<plat(id), N("Headers")>>, hdr(id)} |-> "dir"]
        @@ [q \in {<<plat(id), F(ffi_module_name, "a")>>} |->
              JoinWith([k \in DOMAIN TriplesOf(id) |-> TargetStr(TriplesOf(id)[k])], "+")]
        @@ [q \in {hdr(id) \o <<F(ffi_module_name \o "FFI", "h")>>,
                   hdr(id) \o <<F("module", "modulemap")>>} |-> "header"]
  IN [q \in {<<>>} |-> "dir"]
     @@ [q \in {<<F("Info", "plist")>>} |-> "plist"]
     @@ MergeAll([k \in DOMAIN resolved |-> one(resolved[k])])

DestTree(f) == SubTree(f, xcframework_path)

\* C1: once XCFramework::new has returned, the groups partition the list by
\* identity: no two groups share an id, no group is empty, a group's slices
\* are exactly the triples that resolved to its id (in list order), every
\* triple's id has a group, and every slice resolves to its group's id.
C1_Partition ==
  NewReturned =>
    /\ Len(resolved) = Len(targets)
    /\ \A a, b \in DOMAIN libraries : libraries[a].id = libraries[b].id => a = b
    /\ \A k \in DOMAIN libraries :
         /\ libraries[k].slices # <<>>
         /\ LET triples == TriplesOf(libraries[k].id)
            IN libraries[k].slices =
                 [j \in DOMAIN triples |-> [target |-> triples[j], profile |-> profile]]
         /\ \A j \in DOMAIN libraries[k].slices :
              \E answer \in RustcAnswers(libraries[k].slices[j].target) :
                from_target(libraries[k].slices[j].target, answer)
                  = [ok |-> TRUE, id |-> libraries[k].id]
    /\ \A i \in DOMAIN resolved : \E k \in DOMAIN libraries : libraries[k].id = resolved[i]

\* C1's case: three triples in two groups, one group holding two slices.
C1_Witness ==
  /\ NewReturned
  /\ Len(targets) = 3
  /\ Len(libraries) = 2
  /\ \E k \in DOMAIN libraries : Len(libraries[k].slices) = 2

\* C2: whenever the bundler is invoked, it gets as many (library, headers)
\* pairs as the list has distinct identities, exactly one pair per identity
\* (the library merged in that identity's directory), no library twice.
C2_OnePairPerIdentity ==
  \A c \in DOMAIN calls :
    calls[c].tool = "xcodebuild" =>
      /\ Len(calls[c].args) = Cardinality(Ids)
      /\ \A id \in Ids :
           Cardinality({k \in DOMAIN calls[c].args :
                          calls[c].args[k][1] = group_dir(id) \o <<F(ffi_module_name, "a")>>}) = 1
      /\ \A a, b \in DOMAIN calls[c].args :
           calls[c].args[a][1] = calls[c].args[b][1] => a = b

\* C2's case: the bundler was invoked for three triples of two identities.
C2_Witness ==
  /\ Len(targets) = 3
  /\ Cardinality(Ids) = 2
  /\ \E c \in DOMAIN calls : calls[c].tool = "xcodebuild" /\ Len(calls[c].args) = 2

\* The statement of C3 for a list of two triples: the run does not reject a
\* triple; XCFramework::new yields one non-simulator group of 2 slices; the
\* merge tool gets both slice copies; the bundler gets 1 pair; a run that
\* succeeds has invoked each tool once.
AssemblesOneGroup(list) ==
  targets = list =>
    /\ result \notin TripleRejections
    /\ NewReturned =>
         /\ Len(libraries) = 1
         /\ Len(libraries[1].slices) = 2
         /\ ~libraries[1].id.is_sim
    /\ \A c \in DOMAIN calls :
         /\ calls[c].tool = "lipo" =>
              calls[c].args = <<slice_dir(list[1]) \o <<F(ffi_module_name, "a")>>,
                                slice_dir(list[2]) \o <<F(ffi_module_name, "a")>>,
                                group_dir(libraries[1].id) \o <<F(ffi_module_name, "a")>> >>
         /\ calls[c].tool = "xcodebuild" => Len(calls[c].args) = 1
    /\ result = "Ok" =>
         /\ Cardinality({c \in DOMAIN calls : calls[c].tool = "lipo"}) = 1
         /\ Cardinality({c \in DOMAIN calls : calls[c].tool = "xcodebuild"}) = 1

\* C3 (amended): given ["a1-apple-darwin", "a2-apple-darwin"], both device
\* triples, the run produces one LibraryGroup of 2 slices, merges both slice
\* copies and hands the bundler exactly 1 pair.
C3_Darwin == AssemblesOneGroup(<<Darwin1, Darwin2>>)

\* C3 as stated, for ["a1-apple-macos", "a2-apple-macos"].
C3_Macos == AssemblesOneGroup(<<Macos1, Macos2>>)

\* C3's case: the run on the two darwin triples succeeded.
C3_Witness == targets = <<Darwin1, Darwin2>> /\ result = "Ok"

\* The destination holds no more than it held when the run started (the old
\* content, or what a removal left of it).
DestNotWritten(f) ==
  \A q \in Under(f, xcframework_path) : q \in DOMAIN fs0 /\ f[q] = fs0[q]

\* The destination is an empty directory.
DestEmpty(f) ==
  Under(f, xcframework_path) = {xcframework_path} /\ f[xcframework_path] = "dir"

\* The content of the destination differs between two file systems.
DestDiffers(f1, f2) ==
  \/ Under(f1, xcframework_path) # Under(f2, xcframework_path)
  \/ \E q \in Under(f1, xcframework_path) : f1[q] # f2[q]

\* C4 as stated: the destination's content changes only through the rename
\* of the temporary bundle.
C4_OnlyRenameChangesDest ==
  [][DestDiffers(fs, fs') => pc = "rename"]_xvars

\* C4 (amended): the destination's content changes only when recreate_dir
\* deletes what was there before the rename (nothing is written to it) and
\* when the rename puts the complete, patched temporary bundle in place; so
\* the destination never holds an unpatched or partly written new bundle.
C4_DestByDeleteThenRename ==
  [][DestDiffers(fs, fs') =>
       \/ pc = "recreate_dest" /\ (DestNotWritten(fs') \/ DestEmpty(fs'))
       \/ /\ pc = "rename"
          /\ DestTree(fs') = SubTree(fs, temp_dest)
          /\ DestTree(fs') = ExpectedBundle
          /\ ~Exists(fs', temp_dest)]_xvars

\* C4's case: the rename failed in a run whose destination held a stale
\* bundle.
C4_Witness ==
  /\ result = "Err: Failed to move xcframework"
  /\ Exists(fs0, xcframework_path \o <<N("tvos")>>)
  /\ DestEmpty(fs)

\* The swift wrapper directory holds the binding sources of the first group.
WrapperExtracted ==
  /\ libraries # <<>>
  /\ SubTree(fs, swift_wrapper_dir) =
       [q \in {<<>>} |-> "dir"] @@ [q \in {<<F(ffi_module_name, "swift")>>} |-> "swift"]

\* C5: when create_xcframework has returned, either it succeeded and the
\* destination holds the complete patched bundle and the swift wrapper
\* directory the binding sources; or it failed and nothing of the new run
\* is at the destination.
C5_NoPartialSuccess ==
  result # "none" =>
    \/ result = "Ok" /\ DestTree(fs) = ExpectedBundle /\ WrapperExtracted
    \/ result # "Ok" /\ (DestNotWritten(fs) \/ DestEmpty(fs))

\* C6: when create_xcframework has returned, Ok or Err, the temporary root
\* does not exist.
C6_TempRootDeleted == result # "none" => ~Exists(fs, temp_dir)

\* C7: after a successful run the destination is exactly the bundle of the
\* new run's triples: one platform directory per identity of the list and
\* nothing else, whatever the destination held before.
C7_StaleBundleReplaced ==
  result = "Ok" =>
    /\ DestTree(fs) = ExpectedBundle
    /\ {q \in Children(fs, xcframework_path) : IsDir(fs, q)}
         = {xcframework_path \o <<N(LibraryGroupId_fmt(id))>> : id \in Ids}
    /\ \A q \in Under(fs0, xcframework_path) :
         fs0[q] = "stale" => ~(Exists(fs, q) /\ fs[q] = "stale")

\* C7's case: a run succeeded whose destination held a stale bundle with a
\* platform directory the new list does not produce.
C7_Witness ==
  /\ result = "Ok"
  /\ Exists(fs0, xcframework_path \o <<N("tvos")>>)
  /\ Cardinality(Ids) = 2


\* The merges the run has asked of lipo, in order.
LipoCalls == SelectSeq(calls, LAMBDA c : c.tool = "lipo")

\* The output path of a lipo call, and the directory it is in.
LipoOutput(c) == c.args[Len(c.args)]

\* What the merge of identity id is to be called with: for each triple of the
\* list that resolved to id, in list order, <temp_dir>/<triple>/<name>.a, and
\* then the output <temp_dir>/<id>/<name>.a.
MergeOf(id) ==
  [j \in DOMAIN TriplesOf(id) |->
     temp_dir \o <<N(TargetStr(TriplesOf(id)[j])), F(ffi_module_name, "a")>>]
    \o <<temp_dir \o <<N(LibraryGroupId_fmt(id)), F(ffi_module_name, "a")>>>>

\* C16: in a run that returned Ok, lipo was called once per identity of the
\* list, with the copies of that identity's triples in list order and no
\* other input, also for an identity of a single triple; and the directory
\* a merge writes to holds nothing but its output.
C16_OneMergePerGroup ==
  LET merges == LipoCalls IN
  /\ result = "Ok" =>
       /\ Len(merges) = Cardinality(Ids)
       /\ \A id \in Ids :
            \E k \in DOMAIN merges :
              /\ merges[k].args = MergeOf(id)
              /\ \A j \in DOMAIN merges :
                   LipoOutput(merges[j]) = LipoOutput(merges[k]) => j = k
  /\ \A k \in DOMAIN merges :
       LET out == LipoOutput(merges[k])
       IN \A q \in DOMAIN fs :
            (Len(q) = Len(out) /\ q # out) =>
              SubSeq(q, 1, Len(q) - 1) # SubSeq(out, 1, Len(out) - 1)

\* C16's case: a run of three triples returned Ok, having merged a group of
\* two slices and a group of one.
C16_Witness ==
  /\ result = "Ok"
  /\ Len(targets) = 3
  /\ \E a, b \in DOMAIN LipoCalls :
       Len(LipoCalls[a].args) = 3 /\ Len(LipoCalls[b].args) = 2

\* The entries named *.a that were there when the run started.
Archives == {q \in DOMAIN fs0 : q[Len(q)][2] = "a"}

\* Of the entries named *.a, none or more than one is in the built-product
\* directory of the triple.
AmbiguousAmong(archives, target) ==
  LET dir == cargo_target_dir \o <<N(TargetStr(target)), N(CargoProfile_dir_name(profile))>>
  IN Cardinality({q \in archives : /\ Len(q) = Len(dir) + 1
                                   /\ SubSeq(q, 1, Len(dir)) = dir}) # 1

\* The built-product directory of the triple held, when the run started, no
\* entry named *.a or more than one.
AmbiguousArtifact(target) == AmbiguousAmong(Archives, target)

\* C17: when the built-product directory of a slice holds no .a file or more
\* than one, the run does not return Ok; Slice::create of that slice ends the
\* run with the panic of its assertion; no copy of a library is made for the
\* slice, lipo is not called for the identity of the slice, xcodebuild is not
\* called, and the destination stays as it was.
C17_AmbiguousArtifactIsFatal ==
  LET archives == Archives IN
  \A i \in DOMAIN targets :
    AmbiguousAmong(archives, targets[i]) =>
      /\ result # "Ok"
      /\ (pc = "slice" /\ result # "none" /\ libraries[g].slices[s].target = targets[i])
           => result = "Panic: Expected exactly one library for each slice"
      /\ ~Exists(fs, temp_dir \o <<N(TargetStr(targets[i])), F(ffi_module_name, "a")>>)
      /\ i \in DOMAIN resolved =>
           \A k \in DOMAIN LipoCalls :
             LipoOutput(LipoCalls[k])
               # temp_dir \o <<N(LibraryGroupId_fmt(resolved[i])), F(ffi_module_name, "a")>>
      /\ \A k \in DOMAIN calls : calls[k].tool # "xcodebuild"
      /\ ~DestDiffers(fs0, fs)

\* C17's case: the run has ended in Slice::create's panic on a slice whose
\* directory holds two libraries, after the merge of another group.
C17_Witness ==
  /\ \E i \in DOMAIN targets : AmbiguousArtifact(targets[i])
  /\ result = "Panic: Expected exactly one library for each slice"
  /\ Cardinality(files_with_extension(fs, built_product_dir(libraries[g].slices[s].target,
                                                            profile), "a")) = 2
  /\ LipoCalls # <<>>

\* The error from_target is to reject a triple with, or "none": its second
\* segment is not "apple", it has no third segment, or its third segment is
\* none of the OS names ApplePlatform knows.
Rejection(target) ==
  IF Len(target) < 2 \/ target[2] # "apple" THEN "Err: not an Apple platform"
  ELSE IF Len(target) < 3 THEN "Err: No OS in target"
  ELSE IF target[3] \notin {"darwin", "ios", "tvos", "watchos"}
  THEN "Err: Unknown Apple platform"
  ELSE "none"

\* C18: from_target gives an error and no identity for a triple whose vendor
\* is not "apple", that has no OS segment or whose OS segment is not
\* recognised, whatever rustc would answer; the run ends with that error at
\* the triple, without having called rustc for it.
C18_MalformedTripleRejectedBeforeRustc ==
  \A i \in DOMAIN targets :
    Rejection(targets[i]) # "none" =>
      /\ \A answer \in RustcAnswers(targets[i]) : ~from_target(targets[i], answer).ok
      /\ i \notin DOMAIN resolved
      /\ \A k \in DOMAIN calls :
           calls[k].tool = "rustc" => calls[k].args # <<targets[i]>>
      /\ (pc = "new" /\ result # "none" /\ Len(resolved) = i - 1)
           => result = Rejection(targets[i])

\* C18's case: the run has ended at a triple of another vendor, after it
\* resolved the triple before it.
C18_Witness ==
  /\ result = "Err: not an Apple platform"
  /\ Len(resolved) = 1
  /\ Rejection(targets[2]) = "Err: not an Apple platform"
  /\ Len(calls) = 1

\* The calls of rustc the run has made, in order.
RustcCalls == SelectSeq(calls, LAMBDA c : c.tool = "rustc")

\* C19: rustc is called once per entry of the list at most, in list order,
\* and never again for an entry; when a call has failed, the run has ended
\* with that error in XCFramework::new: no later triple is resolved, nothing
\* is merged or bundled, and the destination and the swift wrapper directory
\* are as they were.
C19_ResolutionFailureIsFatal ==
  LET rustc == RustcCalls IN
  /\ Len(rustc) <= Len(targets)
  /\ \A k \in DOMAIN rustc : rustc[k].args = <<targets[k]>>
  /\ Len(resolved) <= Len(rustc)
  /\ Len(rustc) > Len(resolved) =>
       /\ Len(rustc) = Len(resolved) + 1
       /\ result = "Err: Command failed"
       /\ pc = "new"
       /\ libraries = <<>>
       /\ \A k \in DOMAIN calls : calls[k].tool = "rustc"
       /\ ~DestDiffers(fs0, fs)
       /\ Under(fs, swift_wrapper_dir) = Under(fs0, swift_wrapper_dir)
       /\ \A q \in Under(fs, swift_wrapper_dir) : fs[q] = fs0[q]

\* C19's case: rustc failed for the second of three triples, after the first
\* was resolved.
C19_Witness ==
  /\ Len(targets) = 3
  /\ Len(RustcCalls) = 2
  /\ Len(resolved) = 1
  /\ result = "Err: Command failed"

\* The place of a tool in the order of the run.
StepOf(tool) == CASE tool = "rustc" -> 1 [] tool = "lipo" -> 2 [] tool = "xcodebuild" -> 3

\* The new bundle is at the destination.
Moved ==
  /\ Exists(fs, xcframework_path \o <<F("Info", "plist")>>)
  /\ fs[xcframework_path \o <<F("Info", "plist")>>] = "plist"

\* The swift wrapper directory holds the binding source of this run.
Extracted ==
  LET q == swift_wrapper_dir \o <<F(ffi_module_name, "swift")>>
  IN Exists(fs, q) /\ fs[q] = "swift"

\* C22: the steps of a run come in one order, each only after all earlier
\* ones succeeded: rustc for every triple, then lipo for every group with
\* its headers directory found, then xcodebuild once, then the patch, then
\* the move to the destination, then the extraction of the binding sources.
\* xcodebuild is not called before every group is merged, and the bundle
\* moved to the destination is patched.
C22_StepsInOrder ==
  LET merges == LipoCalls
      bundled == \E k \in DOMAIN calls : calls[k].tool = "xcodebuild"
  IN /\ \A k \in 1 .. Len(calls) - 1 :
          /\ StepOf(calls[k].tool) <= StepOf(calls[k + 1].tool)
          /\ calls[k].tool # "xcodebuild"
     /\ merges # <<>> =>
          /\ Len(resolved) = Len(targets)
          /\ Len(RustcCalls) = Len(targets)
     /\ bundled =>
          /\ Len(merges) = Cardinality(Ids)
          /\ Len(library_args) = Cardinality(Ids)
          /\ \A id \in Ids : \E k \in DOMAIN merges : merges[k].args = MergeOf(id)
          /\ calls[Len(calls)].args = library_args
     /\ Moved =>
          /\ bundled
          /\ ~Exists(fs, temp_dest) \/ pc = "returned"
          /\ \A id \in Ids :
               LET headers == xcframework_path \o <<N(LibraryGroupId_fmt(id)), N("Headers")>>
               IN /\ IsFile(fs, xcframework_path
                                  \o <<N(LibraryGroupId_fmt(id)), F(ffi_module_name, "a")>>)
                  /\ Children(fs, headers) = {headers \o <<N(ffi_module_name)>>}
                  /\ Children(fs, headers \o <<N(ffi_module_name)>>) # {}
     /\ Extracted => Moved
     /\ result = "Ok" => Moved /\ Extracted

\* C22's case: a run of two groups has returned Ok, after two merges and one
\* bundler call.
C22_Witness ==
  /\ result = "Ok"
  /\ Len(LipoCalls) = 2
  /\ calls[Len(calls)].tool = "xcodebuild"
  /\ Moved
  /\ Extracted

\* The build step has succeeded for the triple: its built-product directory
\* holds one library, and swift-bindings with the Swift source and the
\* headers directory reorganize_binding_files made, holding the module map.
BuildSucceeded(target) ==
  LET dir == cargo_target_dir \o <<N(TargetStr(target)), N(CargoProfile_dir_name(profile))>>
      bindings == dir \o <<N("swift-bindings")>>
  IN /\ ~AmbiguousArtifact(target)
     /\ \E name \in {"Headers", "headers"} :
          Exists(fs0, bindings \o <<N(name), F("module", "modulemap")>>)

\* C23: when the build step has succeeded for every triple of the list, no
\* group's headers directory is missed: the run does not end with "Headers
\* not found", and every headers directory passed to the bundler is the one
\* of the group's first slice.
C23_HeadersDirFound ==
  (\A i \in DOMAIN targets : BuildSucceeded(targets[i])) =>
    /\ result # "Err: Headers not found"
    /\ \A k \in DOMAIN library_args : IsDir(fs0, library_args[k][2])

\* The scratch directory of a group, of a slice, as the run names them.
GroupScratch(id) == temp_dir \o <<N(LibraryGroupId_fmt(id))>>

SliceScratch(target) == temp_dir \o <<N(TargetStr(target))>>

DirectDependencies(package) ==
  {package.dependencies[i].name : i \in DOMAIN package.dependencies}

\* The discovered packages that no discovered package lists as a direct
\* dependency, by name, in cargo metadata's order.
RootCandidates ==
  LET discovered == SelectSeq(metadata.packages, is_uniffi_package)
      roots == SelectSeq(discovered,
                 LAMBDA p : \A k \in DOMAIN discovered :
                              p.name \notin DirectDependencies(discovered[k]))
  IN [k \in DOMAIN roots |-> roots[k].name]

\* C8: once Project::uniffi_package has ended on packages of supported ids,
\* it has returned the root candidate if there is exactly one, and otherwise
\* the error that lists every candidate.
C8_UniqueRootOrErrorListing ==
  (op = "uniffi_package" /\ dresult.kind \notin {"none", "Err: Unsupported package id"}) =>
    IF Len(RootCandidates) = 1
    THEN dresult.kind = "Ok" /\ dresult.value.name = RootCandidates[1]
    ELSE /\ dresult.kind = "Err: Expected 1 top-level package, found"
         /\ dresult.value = RootCandidates

\* The workspace is two uniffi packages that depend on each other.
TwoCycle ==
  /\ Len(SelectSeq(metadata.packages, is_uniffi_package)) = 2
  /\ Len(metadata.packages) = 2
  /\ \A i \in DOMAIN metadata.packages :
       Cardinality(DirectDependencies(metadata.packages[i]) \ {"uniffi"}) = 1

\* C9: building the UniffiPackage trees terminates: no call of
\* UniffiPackage::new is made inside a call of it for the same package, and
\* the stack is never exhausted; and on two packages that depend on each
\* other, uniffi_package ends with the error about the top-level packages.
C9_NewTerminates ==
  /\ \A i, j \in DOMAIN stack : stack[i].package.name = stack[j].package.name => i = j
  /\ dresult.kind # "Abort: stack overflow"
  /\ (/\ TwoCycle
      /\ op = "uniffi_package"
      /\ dresult.kind \notin {"none", "Err: Unsupported package id"}) =>
       dresult.kind = "Err: Expected 1 top-level package, found"

\* C10: generate_swift_package2 goes on to resolve targets only when there
\* is exactly one root candidate, never panics for want of one, and a
\* manifest it has written is named after the one root candidate.
C10_ManifestNamedAfterUniqueRoot ==
  op = "generate_swift_package2" =>
    /\ dpc \in {"public_target", "internal_target", "write", "format", "returned"} =>
         Len(RootCandidates) = 1
    /\ dresult.kind # "Panic: called Option::unwrap() on a None value"
    /\ manifest.state \in {"written", "formatted"} =>
         /\ Len(RootCandidates) = 1
         /\ manifest.content.package_name = SpmName(RootCandidates[1])

\* The name of the package a yielded node is of.
NameOf(node) == NodeAt(dresult.value, node).name

\* The names of the direct dependencies of a yielded node.
DependencyNamesOf(node) ==
  LET deps == NodeAt(dresult.value, node).dependencies
  IN {deps[k].name : k \in DOMAIN deps}

\* The first position of a package in what a call of iter yielded.
FirstOccurrence(y, name) == Min({i \in DOMAIN y : NameOf(y[i]) = name})

\* C11 as stated: in what iter yielded, the start node is first, and the
\* first occurrence of a package comes before every occurrence of each of
\* its direct dependencies.
C11_PackageBeforeEveryOccurrence ==
  \A c \in DOMAIN yielded :
    LET y == yielded[c] IN
      /\ y[1] = <<>>
      /\ \A i, j \in DOMAIN y :
           NameOf(y[j]) \in DependencyNamesOf(y[i]) =>
             FirstOccurrence(y, NameOf(y[i])) < j

\* C11 (amended): in what iter yielded, the start node is first, and every
\* node of the tree comes before the nodes of its own dependencies (the
\* nodes below it in the tree); a package that is reached by two paths may
\* come, as the dependency of one package, before another that depends on it.
C11_NodeBeforeItsOwnDependencies ==
  \A c \in DOMAIN yielded :
    LET y == yielded[c] IN
      /\ y[1] = <<>>
      /\ \A i, j \in DOMAIN y : (IsPrefix(y[i], y[j]) /\ y[i] # y[j]) => i < j
      /\ \A j \in DOMAIN y :
           y[j] # <<>> => \E i \in 1 .. j - 1 : y[i] = SubSeq(y[j], 1, Len(y[j]) - 1)

\* C11's case: iter has returned on a tree in which a package is reached by
\* two paths, once before a package that depends on it.
C11_Witness ==
  \E c \in DOMAIN yielded :
    LET y == yielded[c] IN
      \E i, j \in DOMAIN y :
        /\ j < i
        /\ NameOf(y[j]) \in DependencyNamesOf(y[i])

RECURSIVE PreOrderReversed(_, _, _)
\* The pre-order walk of the dependencies k, k - 1, .. 1 of the node at path:
\* from the one declared last to the one declared first, each followed by
\* all that is below it.
PreOrderReversed(tree, path, k) ==
  LET node == NodeAt(tree, path)
      below(d) == <<Append(path, d)>>
                    \o PreOrderReversed(tree, Append(path, d),
                                        Len(NodeAt(tree, Append(path, d)).dependencies))
  IN IF k = 0 THEN <<>>
     ELSE below(k) \o PreOrderReversed(tree, path, k - 1)

\* The whole pre-order walk from the start node.
PreOrder(tree) == <<<<>>>> \o PreOrderReversed(tree, <<>>, Len(tree.dependencies))

\* The names of the packages of what a call of iter yielded.
NamesOf(y) == [i \in DOMAIN y |-> NameOf(y[i])]

\* The tree is the chain A -> B -> C.
IsChain(tree) ==
  /\ tree.name = "A"
  /\ Len(tree.dependencies) = 1
  /\ tree.dependencies[1].name = "B"
  /\ Len(tree.dependencies[1].dependencies) = 1
  /\ tree.dependencies[1].dependencies[1].name = "C"
  /\ tree.dependencies[1].dependencies[1].dependencies = <<>>

\* C12: what iter yields is the pre-order depth-first walk of the tree with
\* the dependencies of every node taken from the last declared to the first;
\* on the chain A -> B -> C it is A, B, C; and a second call yields the
\* same sequence as the first.
C12_PreOrderLastDeclaredFirst ==
  /\ \A c \in DOMAIN yielded :
       /\ yielded[c] = PreOrder(dresult.value)
       /\ IsChain(dresult.value) => NamesOf(yielded[c]) = <<"A", "B", "C">>
  /\ \A c, d \in DOMAIN yielded : yielded[c] = yielded[d]

\* C12's case: iter has returned twice on a tree whose start node has two
\* dependencies, one of them with a dependency of its own.
C12_Witness ==
  /\ Len(yielded) = 2
  /\ Len(dresult.value.dependencies) = 2
  /\ \E k \in 1 .. 2 : dresult.value.dependencies[k].dependencies # <<>>

\* The discovered package of a name.
Discovered(name) ==
  LET found == SelectSeq(metadata.packages,
                         LAMBDA p : is_uniffi_package(p) /\ p.name = name)
  IN found[1]

\* The dependencies a discovered package declares on discovered packages,
\* one for every entry of its list.
DiscoveredDependencies(name) ==
  SelectSeq(Discovered(name).dependencies,
            LAMBDA d : \E i \in DOMAIN metadata.packages :
                         /\ is_uniffi_package(metadata.packages[i])
                         /\ metadata.packages[i].name = d.name)

RECURSIVE PathCount(_, _, _)
\* The number of dependency paths to a package that start with one of the
\* first k dependencies of package from; with k = 0, the path of no step.
PathCount(from, k, to) ==
  LET deps == DiscoveredDependencies(from)
      through(d) == (IF d = to THEN 1 ELSE 0)
                      + PathCount(d, Len(DiscoveredDependencies(d)), to)
  IN IF k = 0 THEN 0
     ELSE through(deps[k].name) + PathCount(from, k - 1, to)

\* The number of dependency paths from the start package to a package.
Paths(start, to) ==
  (IF start = to THEN 1 ELSE 0)
    + PathCount(start, Len(DiscoveredDependencies(start)), to)

\* The number of nodes of the tree of the start package.
RECURSIVE TreeSize(_)
TreeSize(names) ==
  IF names = {} THEN 0
  ELSE LET n == CHOOSE x \in names : TRUE
       IN Paths(dresult.value.name, n) + TreeSize(names \ {n})

\* C13: iter yields every package as many times as there are dependency
\* paths from the start package to it, and the walk is finite: what it has
\* collected and has still to visit never exceeds the nodes of the tree.
C13_OncePerPath ==
  LET names == {metadata.packages[i].name : i \in DOMAIN metadata.packages} IN
  /\ \A c \in DOMAIN yielded : \A n \in names :
       Cardinality({i \in DOMAIN yielded[c] : NameOf(yielded[c][i]) = n})
         = Paths(dresult.value.name, n)
  /\ dpc = "iter" =>
       Len(iter_result) + Len(queue)
         <= TreeSize({n \in names : \E i \in DOMAIN metadata.packages :
                        /\ is_uniffi_package(metadata.packages[i])
                        /\ metadata.packages[i].name = n})

\* C13's case: iter has returned on the diamond, with the package at its
\* bottom yielded twice.
C13_Witness ==
  /\ Len(metadata.packages) = 4
  /\ \E c \in DOMAIN yielded :
       Cardinality({i \in DOMAIN yielded[c] : NameOf(yielded[c][i]) = "D"}) = 2

(* ------------------ properties of patch_xcframework -------------------- *)

\* patch_xcframework has returned Ok on the given bundle, once.
PatchedOnce == patched = <<>> /\ At("recreate_dest")

\* The platform directories of the bundle in f.
PlatformDirs(f) == {q \in Children(f, temp_dest) : IsDir(f, q)}

\* The path patch_xcframework moves an entry of a Headers folder to.
Relocated(q) ==
  SubSeq(q, 1, Len(q) - 1) \o <<N(ffi_module_name), q[Len(q)]>>

\* C14: when patch_xcframework has returned on a bundle whose Headers folders
\* hold static libraries and headers, every .a file of a Headers folder is
\* where it was, every other entry is one level deeper under
\* Headers/<module_name>, and the entries of the bundle root and of the
\* platform directories are as they were.
C14_LibrariesStayHeadersMove ==
  PatchedOnce =>
    /\ \A q \in Children(fs0, temp_dest) : Exists(fs, q) /\ fs[q] = fs0[q]
    /\ \A p \in PlatformDirs(fs0) :
         /\ \A q \in Children(fs0, p) : Exists(fs, q) /\ fs[q] = fs0[q]
         /\ \A q \in Children(fs0, p \o <<N("Headers")>>) :
              IF q[Len(q)][2] = "a"
              THEN Exists(fs, q) /\ fs[q] = fs0[q]
              ELSE /\ ~Exists(fs, q)
                   /\ Exists(fs, Relocated(q))
                   /\ fs[Relocated(q)] = fs0[q]

\* The second application of patch_xcframework has ended.
PatchedTwice == Len(patched) = 1 /\ (result # "none" \/ pc = "recreate_dest")

\* The headers of f under Headers/<module_name> that g does not hold as f does.
HeadersLost(f1, f2) ==
  {q \in DOMAIN f1 :
     /\ \E p \in PlatformDirs(f1) :
          IsPrefix(p \o <<N("Headers"), N(ffi_module_name)>>, q)
          /\ q # p \o <<N("Headers"), N(ffi_module_name)>>
     /\ ~(Exists(f2, q) /\ f2[q] = f1[q])}

\* The bundle in f has platform directories, each with entries under
\* Headers/<module_name>.
HoldsPatchedHeaders(f) ==
  /\ PlatformDirs(f) # {}
  /\ \A p \in PlatformDirs(f) :
       Children(f, p \o <<N("Headers"), N(ffi_module_name)>>) # {}

\* C15: patch_xcframework applied again to the bundle it has patched does
\* not return Ok with the bundle as it was: it fails, and unless an I/O error
\* stopped it before it removed anything, headers that the first application
\* put under Headers/<module_name> are gone.
C15_SecondPatchLosesHeaders ==
  (PatchedTwice /\ HoldsPatchedHeaders(patched[1])) =>
    /\ result = "Err: patch_xcframework"
    /\ fs = patched[1] \/ HeadersLost(patched[1], fs) # {}

\* C15's case: the second application has ended and headers of the
\* once-patched bundle are gone.
C15_Witness ==
  /\ PatchedTwice
  /\ HoldsPatchedHeaders(patched[1])
  /\ HeadersLost(patched[1], fs) # {}

\* The packages that require bindings: a dependency on uniffi that is normal
\* and not optional, and a uniffi.toml next to the manifest.
BindingRequiring ==
  {i \in DOMAIN metadata.packages :
     /\ \E k \in DOMAIN metadata.packages[i].dependencies :
          metadata.packages[i].dependencies[k]
            = [name |-> "uniffi", kind |-> "normal", optional |-> FALSE]
     /\ metadata.packages[i].name \in uniffi_toml}

\* Those of them whose id starts with neither "git+" nor "path+".
UnsupportedSourcing ==
  {i \in BindingRequiring : metadata.packages[i].id[1] \notin {"git+", "path+"}}

\* The operation called has read the packages.
PackagesRead ==
  /\ op # "none"
  /\ dresult.kind \notin {"Err: Can't get cargo metadata",
                          "Err: The current directory is not the cargo root directory"}

\* C20: once the packages are read, discovery has failed with the error about
\* the unsupported package id exactly when a binding-requiring package,
\* whichever it is, has an id of neither scheme; it has then built no
\* UniffiPackage and looked for no top-level package, however many
\* candidates there are.
C20_UnsupportedSourcingFirst ==
  PackagesRead =>
    IF UnsupportedSourcing # {}
    THEN /\ dresult.kind = "Err: Unsupported package id"
         /\ \E i \in UnsupportedSourcing : dresult.value = metadata.packages[i].id
         /\ uniffi_trees = <<>>
         /\ stack = <<>>
         /\ top_level_package = <<>>
    ELSE dresult.kind # "Err: Unsupported package id"

\* C20's case: discovery has failed on a workspace with two root candidates
\* whose first package is from the registry.
C20_Witness ==
  /\ PackagesRead
  /\ 1 \in UnsupportedSourcing
  /\ Len(RootCandidates) = 2
  /\ dresult.kind = "Err: Unsupported package id"

\* Package.swift holds what this run has rendered.
ManifestWritten == manifest.state \in {"written", "formatted"}

\* The SPM names the map gives the discovered packages that a discovered
\* package declares, one per entry of its list, in the list's order.
MappedDependencies(name) ==
  [j \in DOMAIN DiscoveredDependencies(name) |->
     cargo_package_to_spm_target_map[DiscoveredDependencies(name)[j].name]]

\* C21: the manifest written has one public and one internal target per
\* discovered package: the public target is named as the map names the
\* package and depends on the map's names of the package's direct
\* dependencies, in declaration order and on nothing else; the internal
\* target has the public name followed by "Internal" and depends on the
\* internal names of the same dependencies in the same order.
C21_TargetsMirrorDirectDependencies ==
  ManifestWritten =>
    LET discovered == SelectSeq(metadata.packages, is_uniffi_package)
        public == manifest.content.targets
        internal == manifest.content.internal_targets
    IN /\ Len(public) = Len(discovered)
       /\ Len(internal) = Len(discovered)
       /\ \A k \in DOMAIN discovered :
            /\ public[k].name = cargo_package_to_spm_target_map[discovered[k].name]
            /\ public[k].dependencies = MappedDependencies(discovered[k].name)
            /\ internal[k].name = public[k].name \o "Internal"
            /\ internal[k].dependencies =
                 [j \in DOMAIN public[k].dependencies |->
                    public[k].dependencies[j] \o "Internal"]

\* C21's case: the manifest of three packages is written, one declaring the
\* other two and one of those declaring the third.
C21_Witness ==
  /\ ManifestWritten
  /\ Len(manifest.content.targets) = 3
  /\ \E a, b \in DOMAIN manifest.content.targets :
       /\ Len(manifest.content.targets[a].dependencies) = 2
       /\ Len(manifest.content.internal_targets[b].dependencies) = 1

\* The Package.swift the run found: an existing one, or none.
ExistingManifest ==
  [state |-> IF workspace = "used" THEN "old" ELSE "absent", content |-> <<>>]

\* The ways resolving a target fails.
TargetFailures ==
  {"Err: vend_swift_source_code", "Err: get_only_subdir",
   "Err: Swift wrapper file is not found",
   "Panic: No SPM target name specified for cargo package"}

\* C25: Package.swift is written only after the public and the internal
\* target of every discovered package have been resolved: until then, and
\* whenever resolving a target has failed (no swift wrapper file, no or more
\* than one subdirectory of Sources or Tests, the swift code not vended, a
\* name the map lacks), the Package.swift the run found is as it was.
C25_ManifestAfterEveryTarget ==
  /\ manifest # ExistingManifest =>
       /\ op = "generate_swift_package2"
       /\ Len(public_targets) = Len(uniffi_trees)
       /\ Len(internal_targets) = Len(uniffi_trees)
       /\ dresult.kind \notin TargetFailures
  /\ dresult.kind \in TargetFailures => manifest = ExistingManifest
  /\ dpc \in {"public_target", "internal_target"} => manifest = ExistingManifest

\* The wrapper file of the second package is missing after every public
\* target and the first internal target were resolved; the old Package.swift
\* is still there.
C25_Witness ==
  /\ workspace = "used"
  /\ dresult.kind = "Err: Swift wrapper file is not found"
  /\ Len(uniffi_trees) >= 2
  /\ Len(public_targets) = Len(uniffi_trees)
  /\ Len(internal_targets) = 1
  /\ manifest = [state |-> "old", content |-> <<>>]

====
